---- MODULE Spec2Model ----
(***************************************************************************)
(* Lease lifecycle of the geoprocessing worker (worker.py).                *)
(*                                                                         *)
(* Each worker is one asyncio event loop running the main task (run ->     *)
(* process_job) and, while a job is in flight, one heartbeat task.  The    *)
(* event loop is cooperative: an action of the main task is the code from  *)
(* the resumption of one await to the suspension at the next one.  The     *)
(* file loop of process_geotiff_job (lines 319-360) contains no await, so  *)
(* the loop is blocked for its whole duration (pc = "processing").         *)
(*                                                                         *)
(* Time is discrete.  Timers are relative: Tick counts the remaining lease *)
(* and sleep times down and the elapsed times up (saturating).             *)
(***************************************************************************)
EXTENDS Integers, Sequences, FiniteSets, TLC

\* ---------------------------------------------------------------- bounds
Workers == {"w1", "w2"}
Jobs == {"j1", "j2"}

\* scaled-down stand-ins for POLL_INTERVAL, HEARTBEAT_INTERVAL and
\* MAX_PROCESSING_TIME (worker.py:77-79), in ticks
PollInterval == 1
HeartbeatInterval == 2
MaxProcessingTime == 3
\* the backend's lease timeout: strictly greater than the heartbeat interval
LeaseTimeout == HeartbeatInterval + 1
\* largest number of entries in an input listing
MaxFiles == 2
\* consecutive failed heartbeats are counted up to this number
MaxHbFailures == 2
\* largest number of files handed to the per-file pipeline
MaxBatch == 2
\* most artifacts handed to one upload call
MaxUpload == 3
\* largest width and height of a raster, largest maxSize of a job
MaxDim == 50
MaxSize == 3
\* largest number of entries in a listing handed to the file manager
MaxStaged == 2

NoJob == "none"
NoWorker == "nobody"

Min(a, b) == IF a < b THEN a ELSE b
Max(a, b) == IF a > b THEN a ELSE b

\* ------------------------------------------------------------ job inputs
TaskTypes == {"geotiff_to_png", "unsupported"}

\* What one entry of the input listing turns out to be:
\*   listing_error  the entry carries an 'error' key
\*   http_error     the download answers with a status other than 200
\*   stream_error   the transfer raises after the local file was opened
\*   not_tiff       downloaded, extension outside .tif/.tiff/.geotiff
\*   corrupt        downloaded, .tif, not openable as a raster (zero bytes)
\*   valid          downloaded, .tif, a raster that converts without error
FileKinds == {"listing_error", "http_error", "stream_error",
              "not_tiff", "corrupt", "valid"}

InputLists == UNION {[1..n -> FileKinds] : n \in 0..MaxFiles}

\* the listing request either fails or yields a list of entries
ListingResponses == [status : {200}, files : InputLists]
                      \cup {[status |-> 500, files |-> <<>>]}

\* ------------------------------------------------------------ file system
\* A path is a temp directory (name = "") or a file inside one.  mkdtemp
\* gives every staged input and every output set its own directory.
Dir(k, i) == [kind |-> k, idx |-> i, name |-> ""]
File(k, i, n) == [kind |-> k, idx |-> i, name |-> n]
dirname(p) == [p EXCEPT !.name = ""]
listdir(ws, d) == {p \in ws : p.name # "" /\ dirname(p) = d}
Range(s) == {s[i] : i \in DOMAIN s}

InputPath(f) == File("in", f.idx, "input")

\* worker.py:248-258, the except branch of download_input_files
PartialCleanup(ws, downloaded) ==
  LET paths == {InputPath(downloaded[i]) : i \in DOMAIN downloaded} \cap ws
      ws1 == ws \ paths
  IN ws1 \ {d \in {dirname(p) : p \in paths} : d \in ws1 /\ listdir(ws1, d) = {}}

\* worker.py:223-242, the loop over the entries of the listing
RECURSIVE DownloadLoop(_, _, _, _)
DownloadLoop(files, i, downloaded, ws) ==
  IF i > Len(files)
  THEN [raised |-> FALSE, error |-> "", files |-> downloaded, ws |-> ws]
  ELSE IF files[i] = "listing_error"
  THEN DownloadLoop(files, i + 1, downloaded, ws)
  ELSE LET ws1 == ws \cup {Dir("in", i)}
           ws2 == ws1 \cup {File("in", i, "input")}
       IN CASE files[i] = "http_error" ->
                 DownloadLoop(files, i + 1, downloaded, ws1)
            [] files[i] = "stream_error" ->
                 [raised |-> TRUE, error |-> "transfer error", files |-> <<>>,
                  ws |-> PartialCleanup(ws2, downloaded)]
            [] OTHER ->
                 DownloadLoop(files, i + 1,
                              Append(downloaded, [idx |-> i, kind |-> files[i]]),
                              ws2)

\* worker.py:203-259
download_input_files(resp, ws) ==
  IF resp.status # 200
  THEN [raised |-> TRUE, error |-> "Failed to get download URLs",
        files |-> <<>>, ws |-> ws]
  ELSE IF resp.files = <<>>
  THEN [raised |-> TRUE, error |-> "No input files found for this job",
        files |-> <<>>, ws |-> ws]
  ELSE DownloadLoop(resp.files, 1, <<>>, ws)

\* main.py:82-111: the three artifacts of one raster, or an exception from
\* extract_metadata (rasterio.open) before anything is written
OutputNames == <<"png", "pgw", "json">>

process_geotiff(f, ws) ==
  IF f.kind = "valid"
  THEN [raised |-> FALSE,
        paths |-> [n \in 1..3 |-> File("out", f.idx, OutputNames[n])],
        ws |-> ws \cup {File("out", f.idx, OutputNames[n]) : n \in 1..3}]
  ELSE [raised |-> TRUE, paths |-> <<>>, ws |-> ws]

\* worker.py:325
IsGeoTIFF(f) == f.kind # "not_tiff"

\* worker.py:319-360, the loop over the staged inputs
RECURSIVE ProcessLoop(_, _, _, _, _)
ProcessLoop(inputs, n, outs, results, ws) ==
  IF n > Len(inputs)
  THEN [all_output_files |-> outs, processing_results |-> results, ws |-> ws]
  ELSE IF ~IsGeoTIFF(inputs[n])
  THEN ProcessLoop(inputs, n + 1, outs, results, ws)
  ELSE LET r == process_geotiff(inputs[n], ws \cup {Dir("out", inputs[n].idx)})
       IN ProcessLoop(inputs, n + 1, outs \o r.paths,
                      Append(results, [input_file |-> inputs[n].idx,
                                       error |-> r.raised]),
                      r.ws)

\* variant of upload_output_files: only the converted image gets a key
upload_output_files_ImageOnly(output_files, ws) ==
  LET Image(p) == p \in ws /\ p.name = "png" IN SelectSeq(output_files, Image)

\* worker.py:261-298: a key for every file that can be read
upload_output_files(output_files, ws) ==
  LET Readable(p) == p \in ws IN SelectSeq(output_files, Readable)

\* worker.py:396-414
cleanup_temp_files(ws, file_paths) ==
  LET existing == Range(file_paths) \cap ws
      temp_dirs == {dirname(p) : p \in existing}
      ws1 == ws \ existing
  IN ws1 \ {d \in temp_dirs : d \in ws1 /\ listdir(ws1, d) = {}}

\* variant of OutputPayload: every input without a successful result is
\* counted as failed
OutputPayload_FailedByDifference(tt, w, inputs, results, outs) ==
  LET ok == Cardinality({i \in DOMAIN results : ~results[i].error}) IN
  [taskType |-> tt, workerId |-> w,
   summary |-> [totalInputFiles |-> Len(inputs),
                successfullyProcessed |-> ok,
                failed |-> Len(inputs) - ok,
                outputFilesCount |-> Len(outs)]]

\* worker.py:370-381
OutputPayload(tt, w, inputs, results, outs) ==
  [taskType |-> tt, workerId |-> w,
   summary |-> [totalInputFiles |-> Len(inputs),
                successfullyProcessed |->
                  Cardinality({i \in DOMAIN results : ~results[i].error}),
                failed |-> Cardinality({i \in DOMAIN results : results[i].error}),
                outputFilesCount |-> Len(outs)]]

\* worker.py:458-463
ErrorInfo(w, msg) ==
  [error |-> msg, traceback |-> "traceback", workerId |-> w, failedAt |-> "now"]

NoRequest == [type |-> "none"]
NoListing == [status |-> 0, files |-> <<>>]

\* ------------------------------------------------------ per-file pipeline
\* What the operations on one staged raster turn out to do.  valid: the file
\* passes validate_geotiff_file (processor.py:87-136); ok: the operations
\* that do not fail on it:
\*   metadata  extract_metadata and the writing of the metadata record
\*   stats     generate_statistics
\*   png       convert_to_png
\*   world     create_world_file
\*   thumb     create_thumbnail
StageNames == {"metadata", "stats", "png", "world", "thumb"}
Rasters == [valid : {TRUE}, ok : SUBSET StageNames]
             \cup {[valid |-> FALSE, ok |-> {}]}
BatchInputs == UNION {[1..n -> Rasters] : n \in 0..MaxBatch}

\* processor.py:351-358
Summary(output_files, errors) ==
  [total_output_files |-> Cardinality(output_files),
   has_errors |-> Len(errors) > 0,
   successful_operations |-> Cardinality(output_files),
   failed_operations |-> Len(errors)]

\* processor.py:137-207: a failure is returned as a record, never raised
generate_statistics(f) == IF "stats" \in f.ok THEN "statistics" ELSE "error"

\* processor.py:209-246: a failure is returned as False, never raised
create_thumbnail(f) == "thumb" \in f.ok

\* processor.py:248-362: validation, then four stages, each in a try block
\* of its own; generate_thumbnails and include_statistics at their defaults
\* (processor.py:47-49)
process_geotiff_advanced(f) ==
  IF ~f.valid
  THEN [raised |-> TRUE, output_files |-> {}, statistics |-> "none",
        errors |-> <<>>, summary |-> Summary({}, <<>>)]
  ELSE LET stage1 == "metadata" \in f.ok
           stage2 == "png" \in f.ok
           stage3 == "world" \in f.ok
           output_files ==
             (IF stage1 THEN {"metadata"} ELSE {})
               \cup (IF stage2 THEN {"png"} ELSE {})
               \cup (IF stage3 THEN {"world_file"} ELSE {})
               \cup (IF create_thumbnail(f) THEN {"thumbnail"} ELSE {})
           errors ==
             (IF stage1 THEN <<>> ELSE <<"Metadata extraction failed">>)
               \o (IF stage2 THEN <<>> ELSE <<"PNG conversion failed">>)
               \o (IF stage3 THEN <<>> ELSE <<"World file creation failed">>)
       IN [raised |-> FALSE, output_files |-> output_files,
           statistics |-> IF stage1 THEN generate_statistics(f) ELSE "none",
           errors |-> errors, summary |-> Summary(output_files, errors)]

\* processor.py:368-377
EmptyBatch(input_files) ==
  [files |-> <<>>, errors |-> <<>>,
   summary |-> [total_files |-> Len(input_files), successful |-> 0,
                failed |-> 0, total_output_files |-> 0]]

\* variant of batch_process_file: a file that raised is recorded but not
\* counted
batch_process_file_SkipsRaised(batch, f) ==
  LET r == process_geotiff_advanced(f) IN
  IF r.raised
  THEN [files |-> Append(batch.files, r),
        errors |-> Append(batch.errors, "Failed to process"),
        summary |-> batch.summary]
  ELSE [files |-> Append(batch.files, r),
        errors |-> batch.errors,
        summary |-> [batch.summary EXCEPT
                       !.failed = IF r.summary.has_errors THEN @ + 1 ELSE @,
                       !.successful = IF r.summary.has_errors THEN @ ELSE @ + 1,
                       !.total_output_files = @ + r.summary.total_output_files]]

\* processor.py:380-408, one iteration of the loop of batch_process_files;
\* the inputs have distinct base names
batch_process_file(batch, f) ==
  LET r == process_geotiff_advanced(f) IN
  IF r.raised
  THEN [files |-> Append(batch.files, r),
        errors |-> Append(batch.errors, "Failed to process"),
        summary |-> [batch.summary EXCEPT !.failed = @ + 1]]
  ELSE [files |-> Append(batch.files, r),
        errors |-> batch.errors,
        summary |-> [batch.summary EXCEPT
                       !.failed = IF r.summary.has_errors THEN @ + 1 ELSE @,
                       !.successful = IF r.summary.has_errors THEN @ ELSE @ + 1,
                       !.total_output_files = @ + r.summary.total_output_files]]

\* main.py:82-111 stage by stage: the first operation that fails raises; the
\* metadata record is written last
poc_process_geotiff(f) ==
  IF ~f.valid \/ "metadata" \notin f.ok
  THEN [raised |-> TRUE, written |-> {}]
  ELSE IF "png" \notin f.ok
  THEN [raised |-> TRUE, written |-> {}]
  ELSE IF "world" \notin f.ok
  THEN [raised |-> TRUE, written |-> {"png"}]
  ELSE [raised |-> FALSE, written |-> {"png", "world_file", "metadata"}]

\* worker.py:332-360, one iteration of the file loop for a file with a
\* GeoTIFF extension: the entry appended to processing_results
process_results_entry(i, f) ==
  LET r == poc_process_geotiff(f) IN
  [input_file |-> i, error |-> r.raised,
   output_files |-> IF r.raised THEN {} ELSE r.written]

\* ------------------------------------------------------------------ upload
\* What happens to one artifact handed to an upload call:
\*   missing          the file does not exist (file_manager.py:213,
\*                    worker.py:268)
\*   exception        an operation on the file raises (file_manager.py:217-220,
\*                    worker.py:268-286)
\*   no_url           _get_upload_url answers None (file_manager.py:268-270)
\*   transfer_failed  _upload_file_to_url answers False (file_manager.py:295-297)
\*   ok               none of these
UploadOutcomes == {"missing", "exception", "no_url", "transfer_failed", "ok"}
UploadInputs == UNION {[1..n -> UploadOutcomes] : n \in 0..MaxUpload}

\* the path of the i-th artifact of a job: three artifacts per raster
ArtifactPath(i) == File("out", ((i - 1) \div 3) + 1, OutputNames[((i - 1) % 3) + 1])

\* file_manager.py:251-270
_get_upload_url(outcome) == IF outcome = "no_url" THEN "None" ELSE "upload_info"

\* file_manager.py:272-297
_upload_file_to_url(outcome) == outcome # "transfer_failed"

\* file_manager.py:211-246, one iteration of the loop of
\* upload_job_output_files: the keys after the artifact was handled
upload_job_output_file(uploaded_keys, file_path, outcome) ==
  IF outcome = "missing"
  THEN uploaded_keys
  ELSE IF outcome = "exception"
  THEN uploaded_keys
  ELSE IF _get_upload_url(outcome) = "None"
  THEN uploaded_keys
  ELSE IF _upload_file_to_url(outcome)
  THEN Append(uploaded_keys, file_path)
  ELSE uploaded_keys

\* the artifacts of an upload call that worker.py can read: its upload has
\* no URL exchange and no transfer (worker.py:278-290)
ReadableArtifacts(files) ==
  {ArtifactPath(i) : i \in {k \in DOMAIN files :
                              files[k] \notin {"missing", "exception"}}}

\* ----------------------------------------------------------- configuration
\* The settings validate_config looks at, and the heartbeat interval, which
\* config.py:39 and worker.py:78 read from the same environment variable.
\* The backend's lease timeout is not a setting of the worker.
RequiredVars == {"PGHOST", "PGDATABASE", "PGUSER"}
Configs ==
  [env_set : SUBSET RequiredVars,
   API_BASE_URL : {"", "http://localhost:5000"},
   WORKER_AUTH_TOKEN : {"", "worker-secret-token"},
   temp_dir_writable : BOOLEAN,
   MAX_FILE_SIZE : {1024 * 1024 - 1, 100 * 1024 * 1024},
   CONCURRENT_JOBS : {0, 1},
   HEARTBEAT_INTERVAL : 1..(LeaseTimeout + 1)]

\* config.py:81-121: the issues found, and valid when there is none
validate_config(c) ==
  LET issues ==
        {"Missing required environment variable: " \o v :
           v \in RequiredVars \ c.env_set}
          \cup (IF c.API_BASE_URL = ""
                THEN {"API_BASE_URL is required"} ELSE {})
          \cup (IF c.WORKER_AUTH_TOKEN = ""
                THEN {"WORKER_AUTH_TOKEN is required for authentication"}
                ELSE {})
          \cup (IF ~c.temp_dir_writable
                THEN {"No write permission to temp directory"} ELSE {})
          \cup (IF c.MAX_FILE_SIZE < 1024 * 1024
                THEN {"MAX_FILE_SIZE too small (minimum 1MB)"} ELSE {})
          \cup (IF c.CONCURRENT_JOBS < 1
                THEN {"CONCURRENT_JOBS must be at least 1"} ELSE {})
  IN [valid |-> issues = {}, issues |-> issues]

NotValidated == [valid |-> FALSE, issues |-> {"not validated"}]

\* ---------------------------------------------------------------- resizing
\* main.py:60-61 computes the new size in Python floats, which are IEEE 754
\* doubles: a significand of FloatBits bits, every operation rounded to the
\* nearest, ties to even.  A float is [m, e] and stands for m * 2^e, m a
\* natural number below 2^FloatBits or that power itself.  Naturals of that
\* size are sequences of limbs, the most significant first.
FloatBits == 53
LimbBits == 20
Limb == 2 ^ LimbBits

\* x * d + carry, for d and carry below 2^10
RECURSIVE MulSmall(_, _, _)
MulSmall(x, d, carry) ==
  IF x = <<>> THEN (IF carry = 0 THEN <<>> ELSE <<carry>>)
  ELSE LET t == x[Len(x)] * d + carry
       IN Append(MulSmall(SubSeq(x, 1, Len(x) - 1), d, t \div Limb), t % Limb)

\* quotient and remainder of (r * Limb^Len(x) + x) by b, for r < b < 2^10
RECURSIVE DivSmall(_, _, _)
DivSmall(x, b, r) ==
  IF x = <<>> THEN [q |-> <<>>, r |-> r]
  ELSE LET t == r * Limb + x[1]
           rest == DivSmall(Tail(x), b, t % b)
       IN [q |-> <<t \div b>> \o rest.q, r |-> rest.r]

RECURSIVE ShiftLeft(_, _)
ShiftLeft(x, s) ==
  IF s = 0 THEN x
  ELSE IF s > 9 THEN ShiftLeft(MulSmall(x, 2 ^ 9, 0), s - 9)
  ELSE MulSmall(x, 2 ^ s, 0)

RECURSIVE ShiftRight(_, _)
ShiftRight(x, s) ==
  IF s = 0 THEN x
  ELSE IF s > 9 THEN ShiftRight(DivSmall(x, 2 ^ 9, 0).q, s - 9)
  ELSE DivSmall(x, 2 ^ s, 0).q

\* the value of a natural that fits a machine integer
RECURSIVE ToInt(_)
ToInt(x) ==
  IF x = <<>> THEN 0
  ELSE ToInt(SubSeq(x, 1, Len(x) - 1)) * Limb + x[Len(x)]

\* the number of bits of n
RECURSIVE BitLength(_)
BitLength(n) == IF n = 0 THEN 0 ELSE 1 + BitLength(n \div 2)

\* the float nearest to (m + f) * 2^e, where half says how the fraction f
\* compares with one half: "below", "equal" or "above"
RoundNearestEven(m, e, half) ==
  LET up == half = "above" \/ (half = "equal" /\ m[Len(m)] % 2 = 1)
  IN [m |-> IF up THEN MulSmall(m, 1, 1) ELSE m, e |-> e]

\* the least k >= 1 with a * 2^k >= b, for 0 < a < b
RECURSIVE LeadShift(_, _)
LeadShift(a, b) == IF 2 * a >= b THEN 1 ELSE 1 + LeadShift(2 * a, b)

\* main.py:60, a / b for integers 0 < a < b < 2^10: the quotient has its
\* leading bit at 2^-k, so its significand is a * 2^(k + FloatBits - 1) / b
\* rounded
FloatDivide(a, b) ==
  LET k == LeadShift(a, b)
      d == DivSmall(ShiftLeft(<<a>>, k + FloatBits - 1), b, 0)
      half == IF 2 * d.r > b THEN "above"
              ELSE IF 2 * d.r = b THEN "equal" ELSE "below"
  IN RoundNearestEven(d.q, 0 - (k + FloatBits - 1), half)

\* main.py:61, d * x for an integer 0 < d < 2^10 and a float x: the exact
\* product has t bits more than a significand holds
FloatMultiply(d, x) ==
  LET p == MulSmall(x.m, d, 0)
      t == BitLength(ToInt(ShiftRight(p, FloatBits)))
  IN IF t = 0 THEN [m |-> p, e |-> x.e]
     ELSE LET low == DivSmall(p, 2 ^ t, 0)
              half == IF 2 * low.r > 2 ^ t THEN "above"
                      ELSE IF 2 * low.r = 2 ^ t THEN "equal" ELSE "below"
          IN RoundNearestEven(low.q, x.e + t, half)

\* main.py:61, int(x) for a float x >= 0 whose integer part fits a machine
\* integer
FloatToInt(x) ==
  IF x.e >= 0 THEN ToInt(ShiftLeft(x.m, x.e))
  ELSE ToInt(ShiftRight(x.m, 0 - x.e))

\* processor.py:46, the default of max_image_size
max_image_size == 4096

\* the rasters by their size, and the maxSize of a job: 0 stands for a job
\* without maxSize, which Python takes for false just as it takes 0
RasterSizes == [width : 1..MaxDim, height : 1..MaxDim]
MaxSizes == 0..MaxSize

\* main.py:59-62: image.size after the optional resize; Image.resize is
\* taken to return an image of the size it is given
convert_to_png(size, max_size) ==
  IF max_size # 0 /\ Max(size.width, size.height) > max_size
  THEN LET ratio == FloatDivide(max_size, Max(size.width, size.height))
       IN [width |-> FloatToInt(FloatMultiply(size.width, ratio)),
           height |-> FloatToInt(FloatMultiply(size.height, ratio))]
  ELSE size

\* processor.py:301-305: the conversion stage with the maxSize of the job
\* or the default
convert_stage(size, maxSize) ==
  convert_to_png(size, IF maxSize # 0 THEN maxSize ELSE max_image_size)

\* no conversion has run yet; 0 x 0 is a size the conversion can produce
NoImage == [width |-> 0 - 1, height |-> 0 - 1]

\* ----------------------------------------------------------------- staging
\* file_manager.py:44-45
max_file_size == 100 * 1024 * 1024
allowed_extensions == {".tif", ".tiff", ".geotiff", ".zip", ".geojson", ".json"}

\* What one entry of the listing handed to the file manager turns out to be:
\* whether the entry carries an 'error' key, the status of the download, the
\* bytes the transfer delivers before it ends (or breaks off), the extension
\* of the file name, and whether rasterio opens the file
StagedProfiles ==
  {[listing_error |-> TRUE, status |-> 200, bytes |-> 1024, breaks |-> FALSE,
    extension |-> ".tif", raster |-> TRUE],
   [listing_error |-> FALSE, status |-> 404, bytes |-> 0, breaks |-> FALSE,
    extension |-> ".tif", raster |-> TRUE],
   [listing_error |-> FALSE, status |-> 200, bytes |-> 1024, breaks |-> TRUE,
    extension |-> ".tif", raster |-> TRUE],
   [listing_error |-> FALSE, status |-> 200, bytes |-> max_file_size + 1,
    breaks |-> FALSE, extension |-> ".tif", raster |-> TRUE],
   [listing_error |-> FALSE, status |-> 200, bytes |-> 0, breaks |-> FALSE,
    extension |-> ".tif", raster |-> FALSE],
   [listing_error |-> FALSE, status |-> 200, bytes |-> 1024, breaks |-> FALSE,
    extension |-> ".txt", raster |-> FALSE],
   [listing_error |-> FALSE, status |-> 200, bytes |-> 1024, breaks |-> FALSE,
    extension |-> ".tif", raster |-> FALSE],
   [listing_error |-> FALSE, status |-> 200, bytes |-> 1024, breaks |-> FALSE,
    extension |-> ".json", raster |-> FALSE],
   [listing_error |-> FALSE, status |-> 200, bytes |-> 1024, breaks |-> FALSE,
    extension |-> ".tif", raster |-> TRUE]}

StagedListings ==
  [status : {200}, files : UNION {[1..n -> StagedProfiles] : n \in 0..MaxStaged}]
    \cup {[status |-> 500, files |-> <<>>]}

\* file_manager.py:122-156: the transfer of one file; a status other than
\* 200, a transfer that breaks off and a file over the size ceiling raise,
\* and the except branch removes what was written
_download_file_from_url(f) ==
  LET raised == f.status # 200 \/ f.breaks \/ f.bytes > max_file_size
  IN [raised |-> raised, written |-> ~raised]

\* file_manager.py:158-200; exists says whether the file is on disk
_validate_downloaded_file(exists, f) ==
  IF ~exists
  THEN [valid |-> FALSE, error |-> "File does not exist"]
  ELSE IF f.bytes = 0
  THEN [valid |-> FALSE, error |-> "File is empty"]
  ELSE IF f.bytes > max_file_size
  THEN [valid |-> FALSE, error |-> "File too large"]
  ELSE IF f.extension \notin allowed_extensions
  THEN [valid |-> FALSE, error |-> "Invalid extension"]
  ELSE IF f.extension \in {".tif", ".tiff", ".geotiff"} /\ ~f.raster
  THEN [valid |-> FALSE, error |-> "Invalid GeoTIFF file"]
  ELSE [valid |-> TRUE, error |-> ""]

\* file_manager.py:85-116, one iteration of the loop of
\* download_job_input_files for entry i of the listing: the descriptors and
\* the files in the temp directory afterwards
download_job_input_file(downloaded, on_disk, i, f) ==
  IF f.listing_error
  THEN [downloaded_files |-> downloaded, on_disk |-> on_disk]
  ELSE LET t == _download_file_from_url(f) IN
       IF t.raised
       THEN [downloaded_files |-> downloaded, on_disk |-> on_disk]
       ELSE LET validation == _validate_downloaded_file(TRUE, f) IN
            IF ~validation.valid
            THEN [downloaded_files |-> downloaded, on_disk |-> on_disk \cup {i}]
            ELSE [downloaded_files |->
                    Append(downloaded, [local_path |-> i, file_size |-> f.bytes,
                                        validation |-> validation]),
                  on_disk |-> on_disk \cup {i}]

\* file_manager.py:323-344: the files left in the temp directory and whether
\* the directory is left, after the cleanup of the given descriptors
fm_cleanup_temp_files(file_infos, on_disk, dir_exists) ==
  LET existing == {file_infos[k].local_path : k \in DOMAIN file_infos} \cap on_disk
      left == on_disk \ existing
      temp_dirs == IF existing = {} THEN {} ELSE {"temp_dir"}
  IN [on_disk |-> left,
      dir_exists |-> dir_exists /\ ~("temp_dir" \in temp_dirs /\ left = {})]

\* what the backend or the transport answers to a claim request:
\*   job              200 with a job (worker.py:107-116)
\*   no_job           200 without a job (worker.py:117-119)
\*   non_200          a status other than 200 (worker.py:120-122)
\*   malformed_body   200 with a body that is not JSON, or not of the
\*                    expected shape: worker.py:112-115 raises
\*   transport_error  the request raises (worker.py:106-109)
ClaimAnswers == {"job", "no_job", "non_200", "malformed_body",
                 "transport_error"}
ClaimErrors == {"non_200", "malformed_body", "transport_error"}

\* worker.py:105-122, the try block of claim_next_job: the value it returns,
\* or the exception it raises
claim_try(answer, j) ==
  CASE answer = "job" -> [raised |-> FALSE, value |-> j]
    [] answer \in {"no_job", "non_200"} -> [raised |-> FALSE, value |-> NoJob]
    [] OTHER -> [raised |-> TRUE, value |-> NoJob]

\* variant of claim_outcome: claim_next_job without its except branch
claim_outcome_NoHandler(answer, j) == claim_try(answer, j)

\* worker.py:101-126: how claim_next_job ends; the except branch
\* (worker.py:124-126) turns every exception of the try block into None
claim_outcome(answer, j) ==
  LET r == claim_try(answer, j)
  IN IF r.raised THEN [raised |-> FALSE, value |-> NoJob] ELSE r

\* worker.py:101-126: the value claim_next_job returns to run; j is the job
\* the backend hands out when the answer carries one
claim_next_job(answer, j) == claim_outcome(answer, j).value

NoClaim == [answer |-> "none", result |-> NoJob]

\* ---------------------------------------------------------------- state
VARIABLES
  jobStatus,          \* backend: queued, claimed, completed, failed
  owner,              \* backend: the worker holding the lease
  lease,              \* backend: remaining lease time, 0 = expired
  jobType,            \* backend: taskType of the job
  env,                \* environment: the answers a listing request can get
                      \* and whether a request to the backend can be lost
  pc,                 \* where the main task of a worker is suspended
  current_job_id,     \* worker.py:61
  response,           \* outcome of the terminal request in flight
  hbState,            \* heartbeat task: none, sleeping, sending, cancelled, done
  hbTimer,            \* remaining time of the heartbeat task's sleep
  hbInFlight,         \* heartbeat requests sent and not yet returned
  hbTasks,            \* heartbeat tasks created and not yet ended
  pollTimer,          \* remaining time of the poll sleep
  elapsed,            \* time since the claim of the current job
  sinceRenew,         \* time since the claim or the last heartbeat request
  slept,              \* time since the current sleep of run began
  input_files,        \* worker.py:311
  processing_results, \* worker.py:320
  all_output_files,   \* worker.py:319
  output_keys,        \* worker.py:365
  workspace,          \* paths on disk created for the worker's latest job
  nComplete,          \* complete requests sent in the latest process_job
  nFail,              \* fail requests sent in the latest process_job
  terminalReq,        \* body of the latest terminal request
  exit,               \* how the latest process_job ended
  progressLog,        \* progress values sent in the latest process_job
  listed,             \* the listing answer received in the latest process_job
  progressFailed,     \* a progress request of the latest process_job failed
  hbFailures,         \* failed heartbeat requests in a row, latest process_job
  shutdown,           \* the worker process was told to stop
  lastClaim,          \* answer and result of the latest claim without a job
  job_id,             \* worker.py:420 and 304, the local of process_job
  hb_job_id,          \* worker.py:478, the argument of heartbeat_loop
  claimed,            \* worker.py:499, the job of the latest process_job
  batch_input,        \* per-file pipeline: the rasters handed to it
  batch_i,            \* processor.py:380, files done by batch_process_files
  batch_result,       \* processor.py:369
  loop_i,             \* worker.py:322, files done by the file loop
  loop_results,       \* worker.py:320, processing_results of the file loop
  upload_files,       \* upload: what happens to each artifact handed over
  upload_i,           \* file_manager.py:211, artifacts handled so far
  uploaded_keys,      \* file_manager.py:209
  worker_upload,      \* worker.py:261-298: whether it returned, and its keys
  config,             \* configuration: the settings in the environment
  validation,         \* config.py:187, the latest answer of validate_config
  heartbeat_interval, \* worker.py:78, 0 before the worker is constructed
  raster,             \* resizing: width and height of the raster
  maxSize,            \* worker.py:336, processor.py:302: maxSize of the job
  image,              \* main.py:56-62: size of the image main.py saves
  stage_image,        \* the same for the conversion stage of processor.py
  files_info,         \* staging: the answer to the listing request
  staging,            \* where download_job_input_files and its caller are
  file_i,             \* file_manager.py:85, entries of the listing handled
  downloaded_files,   \* file_manager.py:78
  temp_dir,           \* file_manager.py:82: whether the directory exists
  temp_dir_files      \* entries whose file is in the temp directory

backendVars == <<jobStatus, owner, lease, jobType, env>>
taskVars == <<pc, current_job_id, response>>
hbVars == <<hbState, hbTimer, hbInFlight, hbTasks>>
timeVars == <<pollTimer, elapsed, sinceRenew, slept>>
localVars == <<input_files, processing_results, all_output_files, output_keys>>
logVars == <<progressFailed, hbFailures>>
historyVars == <<nComplete, nFail, terminalReq, exit, progressLog, listed,
                 logVars>>
loopVars == <<shutdown, lastClaim>>
idVars == <<job_id, hb_job_id, claimed>>
workerVars == <<backendVars, taskVars, hbVars, timeVars, localVars, workspace,
                historyVars, loopVars, idVars>>
pipeVars == <<batch_input, batch_i, batch_result, loop_i, loop_results>>
uploadVars == <<upload_files, upload_i, uploaded_keys, worker_upload>>
configVars == <<config, validation, heartbeat_interval>>
resizeVars == <<raster, maxSize, image, stage_image>>
stageVars == <<files_info, staging, file_i, downloaded_files, temp_dir,
               temp_dir_files>>
functionVars == <<pipeVars, uploadVars, configVars, resizeVars, stageVars>>
vars == <<workerVars, functionVars>>

\* the await points inside process_job, and its synchronous file loop
AwaitPcs == {"progress10", "download", "progress30", "progress70",
             "progress90", "complete", "fail", "join"}
ProcessJobPcs == AwaitPcs \cup {"processing"}
InProcessJob(w) == pc[w] \in ProcessJobPcs
\* the event loop of w can run another task
LoopFree(w) == pc[w] # "processing"

\* worker.py:58-61 and the first claim request of run (worker.py:499), for
\* the worker processes in started; the jobs in queued wait to be claimed, the
\* others are completed already; environment as given
InitWith(started, queued, environment) ==
  /\ jobStatus = [j \in Jobs |-> IF j \in queued THEN "queued" ELSE "completed"]
  /\ owner = [j \in Jobs |-> NoWorker]
  /\ lease = [j \in Jobs |-> 0]
  /\ jobType \in {t \in [Jobs -> TaskTypes] :
                    \A j \in Jobs \ queued : t[j] = "geotiff_to_png"}
  /\ env = environment
  /\ pc = [w \in Workers |-> IF w \in started THEN "claim" ELSE "stopped"]
  /\ current_job_id = [w \in Workers |-> NoJob]
  /\ response = [w \in Workers |-> "none"]
  /\ hbState = [w \in Workers |-> "none"]
  /\ hbTimer = [w \in Workers |-> 0]
  /\ hbInFlight = [w \in Workers |-> 0]
  /\ hbTasks = [w \in Workers |-> 0]
  /\ pollTimer = [w \in Workers |-> 0]
  /\ elapsed = [w \in Workers |-> 0]
  /\ sinceRenew = [w \in Workers |-> 0]
  /\ slept = [w \in Workers |-> 0]
  /\ input_files = [w \in Workers |-> <<>>]
  /\ processing_results = [w \in Workers |-> <<>>]
  /\ all_output_files = [w \in Workers |-> <<>>]
  /\ output_keys = [w \in Workers |-> <<>>]
  /\ workspace = [w \in Workers |-> {}]
  /\ nComplete = [w \in Workers |-> 0]
  /\ nFail = [w \in Workers |-> 0]
  /\ terminalReq = [w \in Workers |-> NoRequest]
  /\ exit = [w \in Workers |-> "none"]
  /\ progressLog = [w \in Workers |-> <<>>]
  /\ listed = [w \in Workers |-> NoListing]
  /\ progressFailed = [w \in Workers |-> FALSE]
  /\ hbFailures = [w \in Workers |-> 0]
  /\ shutdown = [w \in Workers |-> w \notin started]
  /\ lastClaim = [w \in Workers |-> NoClaim]
  /\ job_id = [w \in Workers |-> NoJob]
  /\ hb_job_id = [w \in Workers |-> NoJob]
  /\ claimed = [w \in Workers |-> NoJob]

\* the per-file pipeline before the files in input are handed to it
InitBatch(input) ==
  /\ batch_input = input
  /\ batch_i = 0
  /\ batch_result = EmptyBatch(input)
  /\ loop_i = 0
  /\ loop_results = <<>>

\* an upload call before the artifacts in files are handed to it
InitUpload(files) ==
  /\ upload_files = files
  /\ upload_i = 0
  /\ uploaded_keys = <<>>
  /\ worker_upload = [returned |-> FALSE, keys |-> <<>>]

\* the defaults of config.py in a complete environment
DefaultConfig ==
  [env_set |-> RequiredVars, API_BASE_URL |-> "http://localhost:5000",
   WORKER_AUTH_TOKEN |-> "worker-secret-token", temp_dir_writable |-> TRUE,
   MAX_FILE_SIZE |-> 100 * 1024 * 1024, CONCURRENT_JOBS |-> 1,
   HEARTBEAT_INTERVAL |-> HeartbeatInterval]

\* a process started with the settings c, before anything has read them
InitConfig(c) ==
  /\ config = c
  /\ validation = NotValidated
  /\ heartbeat_interval = 0

DefaultRaster == [width |-> 1, height |-> 1]

\* a raster of the given size and a job with the given maxSize, before the
\* conversion
InitResize(size, m) ==
  /\ raster = size
  /\ maxSize = m
  /\ image = NoImage
  /\ stage_image = NoImage

\* the file manager before it is asked for the inputs of a job with the
\* given listing
InitStage(listing) ==
  /\ files_info = listing
  /\ staging = "start"
  /\ file_i = 0
  /\ downloaded_files = <<>>
  /\ temp_dir = FALSE
  /\ temp_dir_files = {}

NoStagedListing == [status |-> 200, files |-> <<>>]

\* one worker process and one job; every listing answer, requests can be lost
Init == /\ InitWith({"w1"}, {"j1"}, [listings |-> "any", delivered |-> BOOLEAN])
        /\ InitBatch(<<>>)
        /\ InitUpload(<<>>)
        /\ InitConfig(DefaultConfig)
        /\ InitResize(DefaultRaster, 0)
        /\ InitStage(NoStagedListing)

\* the listing answers of the fleet: a failure, or one valid raster
FleetListings == {r \in ListingResponses : r.status # 200 \/ r.files = <<"valid">>}

\* the answers a listing request can get in an environment
Listings(name) ==
  CASE name = "any" -> ListingResponses
    [] name = "fleet" -> FleetListings
    [] OTHER -> {}

\* one worker process and one job whose listing fails or names one valid
\* raster; requests can be lost
InitJob == /\ InitWith({"w1"}, {"j1"},
                       [listings |-> "fleet", delivered |-> BOOLEAN])
           /\ InitBatch(<<>>)
           /\ InitUpload(<<>>)
           /\ InitConfig(DefaultConfig)
           /\ InitResize(DefaultRaster, 0)
           /\ InitStage(NoStagedListing)

\* one worker process and a queue of two jobs, each with a listing that
\* fails or names one valid raster; requests can be lost
InitQueue == /\ InitWith({"w1"}, Jobs,
                         [listings |-> "fleet", delivered |-> BOOLEAN])
             /\ InitBatch(<<>>)
             /\ InitUpload(<<>>)
             /\ InitConfig(DefaultConfig)
             /\ InitResize(DefaultRaster, 0)
             /\ InitStage(NoStagedListing)

\* two worker processes polling the same backend for one job over a network
\* that loses no request
InitFleet == /\ InitWith(Workers, {"j1"},
                         [listings |-> "fleet", delivered |-> {TRUE}])
             /\ InitBatch(<<>>)
             /\ InitUpload(<<>>)
             /\ InitConfig(DefaultConfig)
             /\ InitResize(DefaultRaster, 0)
             /\ InitStage(NoStagedListing)

\* the per-file pipelines alone, for every batch of rasters: no worker loop
\* runs
InitPipeline ==
  /\ InitWith({}, {}, [listings |-> "none", delivered |-> {TRUE}])
  /\ \E input \in BatchInputs : InitBatch(input)
  /\ InitUpload(<<>>)
  /\ InitConfig(DefaultConfig)
  /\ InitResize(DefaultRaster, 0)
  /\ InitStage(NoStagedListing)

\* the two upload calls alone, for every list of artifacts and everything
\* that can happen to each of them
InitUploads ==
  /\ InitWith({}, {}, [listings |-> "none", delivered |-> {TRUE}])
  /\ InitBatch(<<>>)
  /\ \E files \in UploadInputs : InitUpload(files)
  /\ InitConfig(DefaultConfig)
  /\ InitResize(DefaultRaster, 0)
  /\ InitStage(NoStagedListing)

\* the start of a process alone, for every combination of settings
InitConfigs ==
  /\ InitWith({}, {}, [listings |-> "none", delivered |-> {TRUE}])
  /\ InitBatch(<<>>)
  /\ InitUpload(<<>>)
  /\ \E c \in Configs : InitConfig(c)
  /\ InitResize(DefaultRaster, 0)
  /\ InitStage(NoStagedListing)

\* the conversion to PNG alone, for every raster size and every maxSize
InitResizes ==
  /\ InitWith({}, {}, [listings |-> "none", delivered |-> {TRUE}])
  /\ InitBatch(<<>>)
  /\ InitUpload(<<>>)
  /\ InitConfig(DefaultConfig)
  /\ \E size \in RasterSizes : \E m \in MaxSizes : InitResize(size, m)
  /\ InitStage(NoStagedListing)

\* the staging of the inputs alone, for every answer to the listing request
InitStages ==
  /\ InitWith({}, {}, [listings |-> "none", delivered |-> {TRUE}])
  /\ InitBatch(<<>>)
  /\ InitUpload(<<>>)
  /\ InitConfig(DefaultConfig)
  /\ InitResize(DefaultRaster, 0)
  /\ \E listing \in StagedListings : InitStage(listing)

\* ---------------------------------------------------------------- backend
\* The queue backend is an external collaborator: claim hands out a job that
\* is unclaimed or whose lease expired, heartbeat extends the lease of the
\* job's owner, complete and fail are terminal transitions of a claimed job.
BackendOffers(j) ==
  jobStatus[j] = "queued" \/ (jobStatus[j] = "claimed" /\ lease[j] = 0)

BackendTerminal(st, j, newStatus, delivered) ==
  IF delivered /\ st[j] = "claimed" THEN [st EXCEPT ![j] = newStatus] ELSE st

BackendResponse(st, j, delivered) ==
  IF delivered /\ st[j] = "claimed" THEN "ok" ELSE "error"

BackendHeartbeat(w, j, delivered) ==
  IF delivered /\ jobStatus[j] = "claimed" /\ owner[j] = w
  THEN [lease EXCEPT ![j] = LeaseTimeout] ELSE lease

\* send_heartbeat gets a 200 (worker.py:154): the request arrived and the
\* backend extended the lease
HeartbeatAccepted(w, j, delivered) ==
  delivered /\ jobStatus[j] = "claimed" /\ owner[j] = w

\* ------------------------------------------------------- terminal requests
\* worker.py:162-171, the request of complete_job
CompleteRequest(j, payload, keys) ==
  [type |-> "complete", job |-> j, outputPayload |-> payload, outputKeys |-> keys]

\* worker.py:184-190, the request of fail_job
FailRequest(j, error_info) ==
  [type |-> "fail", job |-> j, error |-> error_info]

\* worker.py:453-465: the except branch of process_job up to the await of
\* the fail request, which carries the local job_id
RaiseToFail(w, st, msg, delivered) ==
  LET j == job_id[w] IN
  /\ nFail' = [nFail EXCEPT ![w] = @ + 1]
  /\ terminalReq' = [terminalReq EXCEPT ![w] = FailRequest(j, ErrorInfo(w, msg))]
  /\ jobStatus' = BackendTerminal(st, j, "failed", delivered)
  /\ response' = [response EXCEPT ![w] = BackendResponse(st, j, delivered)]
  /\ pc' = [pc EXCEPT ![w] = "fail"]

\* worker.py:128-144: the progress request returned; a non-200 answer and
\* an exception are logged, nothing is raised and nothing is sent again
update_job_progress(w) ==
  \E delivered \in env.delivered :
    progressFailed' = [progressFailed EXCEPT ![w] = @ \/ ~delivered]

\* variant of Finally: the finally block awaits the heartbeat task without
\* cancelling it
Finally_NoCancel(w) ==
  /\ pc' = [pc EXCEPT ![w] = "join"]
  /\ UNCHANGED <<hbState, hbTimer, hbInFlight, hbTasks>>

\* worker.py:468-472: heartbeat_task.cancel() and the await of the task
Finally(w) ==
  /\ hbState' = [hbState EXCEPT ![w] = "cancelled"]
  /\ hbTimer' = [hbTimer EXCEPT ![w] = 0]
  /\ pc' = [pc EXCEPT ![w] = "join"]
  /\ UNCHANGED <<hbInFlight, hbTasks>>

ClearLocals(w) ==
  /\ input_files' = [input_files EXCEPT ![w] = <<>>]
  /\ processing_results' = [processing_results EXCEPT ![w] = <<>>]
  /\ all_output_files' = [all_output_files EXCEPT ![w] = <<>>]
  /\ output_keys' = [output_keys EXCEPT ![w] = <<>>]

\* the record of the latest process_job is kept until the loop moves on
ResetHistory(w) ==
  /\ workspace' = [workspace EXCEPT ![w] = {}]
  /\ nComplete' = [nComplete EXCEPT ![w] = 0]
  /\ nFail' = [nFail EXCEPT ![w] = 0]
  /\ terminalReq' = [terminalReq EXCEPT ![w] = NoRequest]
  /\ exit' = [exit EXCEPT ![w] = "none"]
  /\ progressLog' = [progressLog EXCEPT ![w] = <<>>]
  /\ listed' = [listed EXCEPT ![w] = NoListing]
  /\ progressFailed' = [progressFailed EXCEPT ![w] = FALSE]
  /\ hbFailures' = [hbFailures EXCEPT ![w] = 0]
  /\ claimed' = [claimed EXCEPT ![w] = NoJob]

\* ------------------------------------------------------------ worker loop
\* worker.py:101-126 and 501-506: the claim is answered without a job (the
\* backend has none to offer, or the request fails); claim_next_job returns
\* no job and the loop sleeps the poll interval.  An exception that left
\* claim_next_job would be caught by the handler of the loop
\* (worker.py:512-515), which sleeps twice the poll interval.
ClaimNone(w) ==
  /\ pc[w] = "claim"
  /\ \E answer \in ClaimAnswers \ {"job"} :
       LET r == claim_outcome(answer, NoJob) IN
       /\ answer = "no_job" => ~\E j \in Jobs : BackendOffers(j)
       /\ answer # "no_job" => FALSE \in env.delivered
       /\ claim_next_job(answer, NoJob) = NoJob
       /\ lastClaim' = [lastClaim EXCEPT ![w] =
                          [answer |-> answer,
                           result |-> claim_next_job(answer, NoJob)]]
       /\ pc' = [pc EXCEPT ![w] = IF r.raised THEN "backoff" ELSE "sleep"]
       /\ pollTimer' = [pollTimer EXCEPT ![w] =
                          IF r.raised THEN PollInterval * 2 ELSE PollInterval]
  /\ slept' = [slept EXCEPT ![w] = 0]
  /\ ResetHistory(w)
  /\ UNCHANGED <<backendVars, current_job_id, response, hbVars, elapsed,
                 sinceRenew, localVars, shutdown>>
  /\ UNCHANGED <<job_id, hb_job_id>>
  /\ UNCHANGED functionVars

\* variant of Wake: the next claim is sent without waiting for the sleep
Wake_NoSleep(w) ==
  /\ pc[w] \in {"sleep", "backoff"}
  /\ pc' = [pc EXCEPT ![w] = "claim"]
  /\ slept' = [slept EXCEPT ![w] = 0]
  /\ lastClaim' = [lastClaim EXCEPT ![w] = NoClaim]
  /\ UNCHANGED <<backendVars, current_job_id, response, hbVars, pollTimer,
                 elapsed, sinceRenew, localVars, workspace, historyVars,
                 shutdown>>
  /\ UNCHANGED idVars
  /\ UNCHANGED functionVars

\* worker.py:506 or 515, and 496-499: the sleep is over, the next iteration
\* sends the next claim
Wake(w) ==
  /\ pc[w] \in {"sleep", "backoff"}
  /\ pollTimer[w] = 0
  /\ pc' = [pc EXCEPT ![w] = "claim"]
  /\ slept' = [slept EXCEPT ![w] = 0]
  /\ lastClaim' = [lastClaim EXCEPT ![w] = NoClaim]
  /\ UNCHANGED <<backendVars, current_job_id, response, hbVars, pollTimer,
                 elapsed, sinceRenew, localVars, workspace, historyVars,
                 shutdown>>
  /\ UNCHANGED idVars
  /\ UNCHANGED functionVars

\* worker.py:512-515: an Exception is raised in the body of the loop outside
\* the handlers of claim_next_job and process_job, which catch their own
\* (for instance a MemoryError in the else branch, worker.py:504-506); it is
\* logged and the loop sleeps twice the poll interval
LoopError(w) ==
  /\ pc[w] = "sleep"
  /\ pc' = [pc EXCEPT ![w] = "backoff"]
  /\ pollTimer' = [pollTimer EXCEPT ![w] = PollInterval * 2]
  /\ slept' = [slept EXCEPT ![w] = 0]
  /\ UNCHANGED <<backendVars, current_job_id, response, hbVars, elapsed,
                 sinceRenew, localVars, workspace, historyVars, loopVars>>
  /\ UNCHANGED idVars
  /\ UNCHANGED functionVars

\* worker.py:111-116, 501-503 and 416-436: the claim yields job j;
\* process_job starts the heartbeat task and routes by task type, up to its
\* first await (the progress request, or the fail request)
ClaimJob(w, j) ==
  /\ pc[w] = "claim"
  /\ BackendOffers(j)
  /\ claim_next_job("job", j) = j
  /\ owner' = [owner EXCEPT ![j] = w]
  /\ lease' = [lease EXCEPT ![j] = LeaseTimeout]
  /\ current_job_id' = [current_job_id EXCEPT ![w] = j]
  /\ hbState' = [hbState EXCEPT ![w] = "sleeping"]
  /\ hbTimer' = [hbTimer EXCEPT ![w] = HeartbeatInterval]
  /\ hbTasks' = [hbTasks EXCEPT ![w] = Min(@ + 1, 2)]
  /\ hbFailures' = [hbFailures EXCEPT ![w] = 0]
  /\ progressFailed' = [progressFailed EXCEPT ![w] = FALSE]
  /\ lastClaim' = [lastClaim EXCEPT ![w] = NoClaim]
  /\ elapsed' = [elapsed EXCEPT ![w] = 0]
  /\ sinceRenew' = [sinceRenew EXCEPT ![w] = 0]
  /\ workspace' = [workspace EXCEPT ![w] = {}]
  /\ nComplete' = [nComplete EXCEPT ![w] = 0]
  /\ exit' = [exit EXCEPT ![w] = "none"]
  /\ listed' = [listed EXCEPT ![w] = NoListing]
  /\ IF jobType[j] = "geotiff_to_png"
     THEN /\ jobStatus' = [jobStatus EXCEPT ![j] = "claimed"]
          /\ pc' = [pc EXCEPT ![w] = "progress10"]
          /\ progressLog' = [progressLog EXCEPT ![w] = <<10>>]
          /\ nFail' = [nFail EXCEPT ![w] = 0]
          /\ terminalReq' = [terminalReq EXCEPT ![w] = NoRequest]
          /\ UNCHANGED response
     ELSE /\ progressLog' = [progressLog EXCEPT ![w] = <<>>]
          /\ \E delivered \in env.delivered :
               LET st == [jobStatus EXCEPT ![j] = "claimed"] IN
               /\ nFail' = [nFail EXCEPT ![w] = 1]
               /\ terminalReq' = [terminalReq EXCEPT ![w] =
                    FailRequest(j, ErrorInfo(w, "Unsupported task type"))]
               /\ jobStatus' = BackendTerminal(st, j, "failed", delivered)
               /\ response' = [response EXCEPT ![w] =
                                 BackendResponse(st, j, delivered)]
               /\ pc' = [pc EXCEPT ![w] = "fail"]
  /\ UNCHANGED <<jobType, env, pollTimer, slept, localVars, hbInFlight,
                 shutdown>>
  /\ job_id' = [job_id EXCEPT ![w] = j]
  /\ hb_job_id' = [hb_job_id EXCEPT ![w] = j]
  /\ claimed' = [claimed EXCEPT ![w] = claim_next_job("job", j)]
  /\ UNCHANGED functionVars

\* variant of Progress10Return: the first progress request is sent a second
\* time before the download
Progress10Return_Resends(w) ==
  /\ pc[w] = "progress10"
  /\ pc' = [pc EXCEPT ![w] = "download"]
  /\ progressLog' = [progressLog EXCEPT ![w] = Append(@, 10)]
  /\ update_job_progress(w)
  /\ UNCHANGED <<backendVars, current_job_id, response, hbVars, timeVars,
                 localVars, workspace, nComplete, nFail, terminalReq, exit,
                 listed, hbFailures, loopVars>>
  /\ UNCHANGED idVars
  /\ UNCHANGED functionVars

\* worker.py:308-311: the first progress request returned (its outcome is
\* swallowed, worker.py:140-144); the input listing is requested
Progress10Return(w) ==
  /\ pc[w] = "progress10"
  /\ pc' = [pc EXCEPT ![w] = "download"]
  /\ update_job_progress(w)
  /\ UNCHANGED <<backendVars, current_job_id, response, hbVars, timeVars,
                 localVars, workspace, nComplete, nFail, terminalReq, exit,
                 progressLog, listed, hbFailures, loopVars>>
  /\ UNCHANGED idVars
  /\ UNCHANGED functionVars

\* worker.py:203-259 and 311-316: listing and transfers are over
DownloadReturn(w) ==
  /\ pc[w] = "download"
  /\ \E resp \in Listings(env.listings) :
       LET r == download_input_files(resp, workspace[w]) IN
       /\ workspace' = [workspace EXCEPT ![w] = r.ws]
       /\ listed' = [listed EXCEPT ![w] = resp]
       /\ UNCHANGED current_job_id
       /\ IF r.raised \/ r.files = <<>>
          THEN /\ \E delivered \in env.delivered :
                    RaiseToFail(w, jobStatus,
                                IF r.raised THEN r.error
                                ELSE "No input files downloaded", delivered)
               /\ UNCHANGED <<input_files, progressLog, nComplete, exit>>
          ELSE /\ input_files' = [input_files EXCEPT ![w] = r.files]
               /\ pc' = [pc EXCEPT ![w] = "progress30"]
               /\ progressLog' = [progressLog EXCEPT ![w] = Append(@, 30)]
               /\ UNCHANGED <<jobStatus, response, nComplete, nFail,
                              terminalReq, exit>>
  /\ UNCHANGED <<owner, lease, jobType, env, hbVars, timeVars, processing_results,
                 all_output_files, output_keys, logVars, loopVars>>
  /\ UNCHANGED idVars
  /\ UNCHANGED functionVars

\* variant of Progress30Return: a failed progress request is raised as an
\* error of the job
Progress30Return_Raises(w) ==
  /\ pc[w] = "progress30"
  /\ UNCHANGED current_job_id
  /\ \E delivered \in env.delivered :
       /\ progressFailed' = [progressFailed EXCEPT ![w] = @ \/ ~delivered]
       /\ IF delivered
          THEN /\ pc' = [pc EXCEPT ![w] = "processing"]
               /\ UNCHANGED <<jobStatus, response, nFail, terminalReq>>
          ELSE \E d \in env.delivered :
                 RaiseToFail(w, jobStatus, "progress update failed", d)
  /\ UNCHANGED <<owner, lease, jobType, env, hbVars, timeVars, localVars,
                 workspace, nComplete, exit, progressLog, listed, hbFailures,
                 loopVars>>
  /\ UNCHANGED idVars
  /\ UNCHANGED functionVars

\* worker.py:316-322: the second progress request returned; the file loop,
\* which never yields to the event loop, begins
Progress30Return(w) ==
  /\ pc[w] = "progress30"
  /\ pc' = [pc EXCEPT ![w] = "processing"]
  /\ update_job_progress(w)
  /\ UNCHANGED <<backendVars, current_job_id, response, hbVars, timeVars,
                 localVars, workspace, nComplete, nFail, terminalReq, exit,
                 progressLog, listed, hbFailures, loopVars>>
  /\ UNCHANGED idVars
  /\ UNCHANGED functionVars

\* worker.py:319-362: the file loop ends, the third progress request is sent
ProcessFiles(w) ==
  /\ pc[w] = "processing"
  /\ LET r == ProcessLoop(input_files[w], 1, <<>>, <<>>, workspace[w]) IN
       /\ all_output_files' = [all_output_files EXCEPT ![w] = r.all_output_files]
       /\ processing_results' =
            [processing_results EXCEPT ![w] = r.processing_results]
       /\ workspace' = [workspace EXCEPT ![w] = r.ws]
  /\ pc' = [pc EXCEPT ![w] = "progress70"]
  /\ progressLog' = [progressLog EXCEPT ![w] = Append(@, 70)]
  /\ UNCHANGED <<backendVars, current_job_id, response, hbVars, timeVars,
                 input_files, output_keys, nComplete, nFail, terminalReq, exit,
                 listed, logVars, loopVars>>
  /\ UNCHANGED idVars
  /\ UNCHANGED functionVars

\* worker.py:362-367: upload_output_files has no await of its own
Progress70Return(w) ==
  /\ pc[w] = "progress70"
  /\ output_keys' = [output_keys EXCEPT ![w] =
                       upload_output_files(all_output_files[w], workspace[w])]
  /\ pc' = [pc EXCEPT ![w] = "progress90"]
  /\ progressLog' = [progressLog EXCEPT ![w] = Append(@, 90)]
  /\ update_job_progress(w)
  /\ UNCHANGED <<backendVars, current_job_id, response, hbVars, timeVars,
                 input_files, processing_results, all_output_files, workspace,
                 nComplete, nFail, terminalReq, exit, listed, hbFailures,
                 loopVars>>
  /\ UNCHANGED idVars
  /\ UNCHANGED functionVars

\* worker.py:369-389 and 438-443: payload, cleanup, and the complete request
Progress90Return(w) ==
  /\ pc[w] = "progress90"
  /\ LET j == job_id[w]
         payload == OutputPayload(jobType[j], w, input_files[w],
                                  processing_results[w], all_output_files[w])
         paths == [i \in DOMAIN input_files[w] |-> InputPath(input_files[w][i])]
                    \o all_output_files[w]
     IN /\ workspace' = [workspace EXCEPT ![w] =
                           cleanup_temp_files(workspace[w], paths)]
        /\ terminalReq' = [terminalReq EXCEPT ![w] =
                             CompleteRequest(j, payload, output_keys[w])]
        /\ \E delivered \in env.delivered :
             /\ jobStatus' = BackendTerminal(jobStatus, j, "completed", delivered)
             /\ response' = [response EXCEPT ![w] =
                               BackendResponse(jobStatus, j, delivered)]
  /\ nComplete' = [nComplete EXCEPT ![w] = @ + 1]
  /\ pc' = [pc EXCEPT ![w] = "complete"]
  /\ ClearLocals(w)
  /\ update_job_progress(w)
  /\ UNCHANGED <<owner, lease, jobType, env, current_job_id, hbVars,
                 timeVars, nFail, exit, progressLog, listed, hbFailures,
                 loopVars>>
  /\ UNCHANGED idVars
  /\ UNCHANGED functionVars

\* variant of CompleteReturn: a complete request that was not acknowledged
\* is treated as an error of the job and reported with fail
CompleteReturn_FailsOver(w) ==
  /\ pc[w] = "complete"
  /\ UNCHANGED <<owner, lease, jobType, env, current_job_id, timeVars, localVars,
                 workspace, nComplete, progressLog, listed, logVars, loopVars>>
  /\ IF response[w] = "ok"
     THEN /\ exit' = [exit EXCEPT ![w] = "true"]
          /\ response' = [response EXCEPT ![w] = "none"]
          /\ Finally(w)
          /\ UNCHANGED <<jobStatus, nFail, terminalReq>>
     ELSE /\ \E delivered \in env.delivered :
               RaiseToFail(w, jobStatus, "complete failed", delivered)
          /\ UNCHANGED <<exit, hbVars>>
  /\ UNCHANGED idVars
  /\ UNCHANGED functionVars

\* worker.py:173-182 and 445-451, then the finally block (468-472)
CompleteReturn(w) ==
  /\ pc[w] = "complete"
  /\ exit' = [exit EXCEPT ![w] = IF response[w] = "ok" THEN "true" ELSE "false"]
  /\ response' = [response EXCEPT ![w] = "none"]
  /\ Finally(w)
  /\ UNCHANGED <<backendVars, current_job_id, timeVars, localVars, workspace,
                 nComplete, nFail, terminalReq, progressLog, listed, logVars,
                 loopVars>>
  /\ UNCHANGED idVars
  /\ UNCHANGED functionVars

\* variant of FailReturn: a fail request that was not acknowledged is sent
\* once more
FailReturn_Retries(w) ==
  /\ pc[w] = "fail"
  /\ IF response[w] = "error" /\ nFail[w] < 2
     THEN /\ UNCHANGED current_job_id
          /\ \E delivered \in env.delivered :
               RaiseToFail(w, jobStatus, terminalReq[w].error.error, delivered)
          /\ UNCHANGED <<exit, hbVars, localVars>>
     ELSE /\ exit' = [exit EXCEPT ![w] = "false"]
          /\ response' = [response EXCEPT ![w] = "none"]
          /\ Finally(w)
          /\ ClearLocals(w)
          /\ UNCHANGED <<jobStatus, current_job_id, nFail, terminalReq>>
  /\ UNCHANGED <<owner, lease, jobType, env, timeVars, workspace,
                 nComplete, progressLog, listed, logVars, loopVars>>
  /\ UNCHANGED idVars
  /\ UNCHANGED functionVars

\* variant of FailReturn: the failure path returns without stopping the
\* heartbeat task
FailReturn_NoCancel(w) ==
  /\ pc[w] = "fail"
  /\ exit' = [exit EXCEPT ![w] = "false"]
  /\ response' = [response EXCEPT ![w] = "none"]
  /\ pc' = [pc EXCEPT ![w] = "claim"]
  /\ ClearLocals(w)
  /\ UNCHANGED <<backendVars, current_job_id, hbVars, timeVars, workspace,
                 nComplete, nFail, terminalReq, progressLog, listed, logVars,
                 loopVars>>
  /\ UNCHANGED idVars
  /\ UNCHANGED functionVars

\* worker.py:192-201 and 465-466, then the finally block (468-472)
FailReturn(w) ==
  /\ pc[w] = "fail"
  /\ exit' = [exit EXCEPT ![w] = "false"]
  /\ response' = [response EXCEPT ![w] = "none"]
  /\ Finally(w)
  /\ ClearLocals(w)
  /\ UNCHANGED <<backendVars, current_job_id, timeVars, workspace,
                 nComplete, nFail, terminalReq, progressLog, listed, logVars,
                 loopVars>>
  /\ UNCHANGED idVars
  /\ UNCHANGED functionVars

\* variant of JoinReturn: a process_job that returned False ends the loop
JoinReturn_StopsOnFailure(w) ==
  /\ pc[w] = "join"
  /\ hbState[w] = "done"
  /\ current_job_id' = [current_job_id EXCEPT ![w] = NoJob]
  /\ hbState' = [hbState EXCEPT ![w] = "none"]
  /\ elapsed' = [elapsed EXCEPT ![w] = 0]
  /\ sinceRenew' = [sinceRenew EXCEPT ![w] = 0]
  /\ pc' = [pc EXCEPT ![w] = IF exit[w] \in {"cancelled", "false"}
                             THEN "stopped" ELSE "claim"]
  /\ UNCHANGED <<backendVars, response, hbTimer, hbInFlight, hbTasks,
                 pollTimer, slept, localVars, workspace, historyVars, loopVars>>
  /\ job_id' = [job_id EXCEPT ![w] = NoJob]
  /\ UNCHANGED <<hb_job_id, claimed>>
  /\ UNCHANGED functionVars

\* variant of JoinReturn: process_job returns without resetting
\* current_job_id
JoinReturn_KeepsJobId(w) ==
  /\ pc[w] = "join"
  /\ hbState[w] = "done"
  /\ hbState' = [hbState EXCEPT ![w] = "none"]
  /\ elapsed' = [elapsed EXCEPT ![w] = 0]
  /\ sinceRenew' = [sinceRenew EXCEPT ![w] = 0]
  /\ pc' = [pc EXCEPT ![w] = IF exit[w] = "cancelled" THEN "stopped" ELSE "claim"]
  /\ UNCHANGED <<backendVars, current_job_id, response, hbTimer, hbInFlight,
                 hbTasks, pollTimer, slept, localVars, workspace, historyVars,
                 loopVars>>
  /\ job_id' = [job_id EXCEPT ![w] = NoJob]
  /\ UNCHANGED <<hb_job_id, claimed>>
  /\ UNCHANGED functionVars

\* worker.py:473-476 and 503, 496-499: the heartbeat task has ended;
\* process_job returns and the loop claims again, or the cancellation
\* unwinds run and main (worker.py:529-534)
JoinReturn(w) ==
  /\ pc[w] = "join"
  /\ hbState[w] = "done"
  /\ current_job_id' = [current_job_id EXCEPT ![w] = NoJob]
  /\ hbState' = [hbState EXCEPT ![w] = "none"]
  /\ elapsed' = [elapsed EXCEPT ![w] = 0]
  /\ sinceRenew' = [sinceRenew EXCEPT ![w] = 0]
  /\ pc' = [pc EXCEPT ![w] = IF exit[w] = "cancelled" THEN "stopped" ELSE "claim"]
  /\ UNCHANGED <<backendVars, response, hbTimer, hbInFlight, hbTasks,
                 pollTimer, slept, localVars, workspace, historyVars, loopVars>>
  /\ job_id' = [job_id EXCEPT ![w] = NoJob]
  /\ UNCHANGED <<hb_job_id, claimed>>
  /\ UNCHANGED functionVars

\* ---------------------------------------------------------- heartbeat task
HeartbeatDue(w) == hbState[w] = "sleeping" /\ hbTimer[w] = 0 /\ LoopFree(w)

\* variant of HeartbeatSend: the request is started without being awaited,
\* the task goes straight back to its sleep
HeartbeatSend_NoAwait(w) ==
  /\ HeartbeatDue(w)
  /\ hbTimer' = [hbTimer EXCEPT ![w] = HeartbeatInterval]
  /\ sinceRenew' = [sinceRenew EXCEPT ![w] = 0]
  /\ hbInFlight' = [hbInFlight EXCEPT ![w] = Min(@ + 1, 2)]
  /\ \E delivered \in env.delivered :
       /\ lease' = BackendHeartbeat(w, hb_job_id[w], delivered)
       /\ hbFailures' = [hbFailures EXCEPT ![w] =
            IF HeartbeatAccepted(w, hb_job_id[w], delivered) THEN 0
            ELSE Min(@ + 1, MaxHbFailures)]
  /\ UNCHANGED <<jobStatus, owner, jobType, env, taskVars, hbState, hbTasks,
                 pollTimer, elapsed, slept, localVars, workspace, nComplete,
                 nFail, terminalReq, exit, progressLog, listed, progressFailed,
                 loopVars>>
  /\ UNCHANGED idVars
  /\ UNCHANGED functionVars

\* worker.py:484-485 and 146-152: the sleep is over, the request is sent
HeartbeatSend(w) ==
  /\ HeartbeatDue(w)
  /\ hbState' = [hbState EXCEPT ![w] = "sending"]
  /\ sinceRenew' = [sinceRenew EXCEPT ![w] = 0]
  /\ hbInFlight' = [hbInFlight EXCEPT ![w] = Min(@ + 1, 2)]
  /\ \E delivered \in env.delivered :
       /\ lease' = BackendHeartbeat(w, hb_job_id[w], delivered)
       /\ hbFailures' = [hbFailures EXCEPT ![w] =
            IF HeartbeatAccepted(w, hb_job_id[w], delivered) THEN 0
            ELSE Min(@ + 1, MaxHbFailures)]
  /\ UNCHANGED <<jobStatus, owner, jobType, env, taskVars, hbTimer, hbTasks,
                 pollTimer, elapsed, slept, localVars, workspace, nComplete,
                 nFail, terminalReq, exit, progressLog, listed, progressFailed,
                 loopVars>>
  /\ UNCHANGED idVars
  /\ UNCHANGED functionVars

\* variant of HeartbeatReturn: a failed request ends the heartbeat task
HeartbeatReturn_StopsOnFailure(w) ==
  /\ hbState[w] = "sending"
  /\ LoopFree(w)
  /\ hbState' = [hbState EXCEPT ![w] =
                   IF hbFailures[w] > 0 THEN "done" ELSE "sleeping"]
  /\ hbTimer' = [hbTimer EXCEPT ![w] = HeartbeatInterval]
  /\ hbInFlight' = [hbInFlight EXCEPT ![w] = Max(@ - 1, 0)]
  /\ UNCHANGED <<backendVars, taskVars, hbTasks, timeVars, localVars, workspace,
                 historyVars, loopVars>>
  /\ UNCHANGED idVars
  /\ UNCHANGED functionVars

\* worker.py:154-160 and 483-484: the response (or error) is logged and the
\* task sleeps again
HeartbeatReturn(w) ==
  /\ hbState[w] = "sending"
  /\ LoopFree(w)
  /\ hbState' = [hbState EXCEPT ![w] = "sleeping"]
  /\ hbTimer' = [hbTimer EXCEPT ![w] = HeartbeatInterval]
  /\ hbInFlight' = [hbInFlight EXCEPT ![w] = Max(@ - 1, 0)]
  /\ UNCHANGED <<backendVars, taskVars, hbTasks, timeVars, localVars, workspace,
                 historyVars, loopVars>>
  /\ UNCHANGED idVars
  /\ UNCHANGED functionVars

\* variant of HeartbeatCancelled: the cancellation of the task is raised by
\* the await of the finally block and becomes the outcome of process_job
HeartbeatCancelled_Surfaces(w) ==
  /\ hbState[w] = "cancelled"
  /\ LoopFree(w)
  /\ hbState' = [hbState EXCEPT ![w] = "done"]
  /\ hbInFlight' = [hbInFlight EXCEPT ![w] = 0]
  /\ hbTasks' = [hbTasks EXCEPT ![w] = Max(@ - 1, 0)]
  /\ exit' = [exit EXCEPT ![w] = "cancelled"]
  /\ UNCHANGED <<backendVars, taskVars, hbTimer, timeVars, localVars,
                 workspace, nComplete, nFail, terminalReq, progressLog, listed,
                 logVars, loopVars>>
  /\ hb_job_id' = [hb_job_id EXCEPT ![w] = NoJob]
  /\ UNCHANGED <<job_id, claimed>>
  /\ UNCHANGED functionVars

\* worker.py:486-487: the task receives its cancellation and ends
HeartbeatCancelled(w) ==
  /\ hbState[w] = "cancelled"
  /\ LoopFree(w)
  /\ hbState' = [hbState EXCEPT ![w] = "done"]
  /\ hbInFlight' = [hbInFlight EXCEPT ![w] = 0]
  /\ hbTasks' = [hbTasks EXCEPT ![w] = Max(@ - 1, 0)]
  /\ UNCHANGED <<backendVars, taskVars, hbTimer, timeVars, localVars,
                 workspace, historyVars, loopVars>>
  /\ hb_job_id' = [hb_job_id EXCEPT ![w] = NoJob]
  /\ UNCHANGED <<job_id, claimed>>
  /\ UNCHANGED functionVars

\* ------------------------------------------------------------ cancellation
\* variant of CancelJob: the cancellation is handled like an error of the
\* job and reported with fail
CancelJob_ReportsFail(w) ==
  /\ pc[w] \in AwaitPcs \ {"join", "fail"}
  /\ shutdown' = [shutdown EXCEPT ![w] = TRUE]
  /\ UNCHANGED current_job_id
  /\ \E delivered \in env.delivered :
       RaiseToFail(w, jobStatus, "cancelled", delivered)
  /\ ClearLocals(w)
  /\ UNCHANGED <<owner, lease, jobType, env, hbVars, timeVars, workspace,
                 nComplete, exit, progressLog, listed, logVars, lastClaim>>
  /\ UNCHANGED idVars
  /\ UNCHANGED functionVars

\* variant of CancelJob: the cancellation unwinds process_job and run without
\* the finally block of process_job
CancelJob_SkipsFinally(w) ==
  /\ pc[w] \in AwaitPcs \ {"join"}
  /\ exit' = [exit EXCEPT ![w] = "cancelled"]
  /\ response' = [response EXCEPT ![w] = "none"]
  /\ pc' = [pc EXCEPT ![w] = "stopped"]
  /\ ClearLocals(w)
  /\ shutdown' = [shutdown EXCEPT ![w] = TRUE]
  /\ UNCHANGED <<backendVars, current_job_id, hbVars, timeVars, workspace,
                 nComplete, nFail, terminalReq, progressLog, listed, logVars,
                 lastClaim>>
  /\ UNCHANGED idVars
  /\ UNCHANGED functionVars

\* worker.py:525-534 (asyncio.run): the main task is cancelled while
\* process_job is suspended at an await; CancelledError is not an Exception
\* (worker.py:453), so only the finally block runs.  A cancellation that
\* arrives during the await of the heartbeat task (pc = "join") is absorbed
\* by worker.py:473-474 and changes nothing.
CancelJob(w) ==
  /\ pc[w] \in AwaitPcs \ {"join"}
  /\ exit' = [exit EXCEPT ![w] = "cancelled"]
  /\ response' = [response EXCEPT ![w] = "none"]
  /\ Finally(w)
  /\ ClearLocals(w)
  /\ shutdown' = [shutdown EXCEPT ![w] = TRUE]
  /\ UNCHANGED <<backendVars, current_job_id, timeVars, workspace,
                 nComplete, nFail, terminalReq, progressLog, listed, logVars,
                 lastClaim>>
  /\ UNCHANGED idVars
  /\ UNCHANGED functionVars

\* the same while run is suspended in the claim or in the poll sleep
CancelIdle(w) ==
  /\ pc[w] \in {"claim", "sleep", "backoff"}
  /\ pc' = [pc EXCEPT ![w] = "stopped"]
  /\ pollTimer' = [pollTimer EXCEPT ![w] = 0]
  /\ slept' = [slept EXCEPT ![w] = 0]
  /\ shutdown' = [shutdown EXCEPT ![w] = TRUE]
  /\ lastClaim' = [lastClaim EXCEPT ![w] = NoClaim]
  /\ ResetHistory(w)
  /\ UNCHANGED <<backendVars, current_job_id, response, hbVars, elapsed,
                 sinceRenew, localVars>>
  /\ UNCHANGED <<job_id, hb_job_id>>
  /\ UNCHANGED functionVars

\* -------------------------------------------------------------------- time
\* One unit of time passes.  A heartbeat task whose sleep is over runs before
\* time advances unless the event loop is blocked by the file loop.
Tick ==
  /\ \A w \in Workers : ~HeartbeatDue(w)
  /\ lease' = [j \in Jobs |-> Max(lease[j] - 1, 0)]
  /\ hbTimer' = [w \in Workers |->
       IF hbState[w] = "sleeping" THEN Max(hbTimer[w] - 1, 0) ELSE hbTimer[w]]
  /\ pollTimer' = [w \in Workers |-> Max(pollTimer[w] - 1, 0)]
  /\ elapsed' = [w \in Workers |->
       IF InProcessJob(w) THEN Min(elapsed[w] + 1, MaxProcessingTime + 1)
       ELSE elapsed[w]]
  /\ sinceRenew' = [w \in Workers |->
       IF InProcessJob(w) THEN Min(sinceRenew[w] + 1, HeartbeatInterval + 1)
       ELSE sinceRenew[w]]
  /\ slept' = [w \in Workers |->
       IF pc[w] \in {"sleep", "backoff"}
       THEN Min(slept[w] + 1, IF pc[w] = "sleep" THEN PollInterval
                              ELSE PollInterval * 2)
       ELSE slept[w]]
  /\ UNCHANGED <<jobStatus, owner, jobType, env, taskVars, hbState, hbInFlight,
                 hbTasks, localVars, workspace, historyVars, loopVars>>
  /\ UNCHANGED idVars
  /\ UNCHANGED functionVars

Next ==
  \/ \E w \in Workers : ClaimNone(w)
  \/ \E w \in Workers : Wake(w)
  \/ \E w \in Workers : LoopError(w)
  \/ \E w \in Workers : \E j \in Jobs : ClaimJob(w, j)
  \/ \E w \in Workers : Progress10Return(w)
  \/ \E w \in Workers : DownloadReturn(w)
  \/ \E w \in Workers : Progress30Return(w)
  \/ \E w \in Workers : ProcessFiles(w)
  \/ \E w \in Workers : Progress70Return(w)
  \/ \E w \in Workers : Progress90Return(w)
  \/ \E w \in Workers : CompleteReturn(w)
  \/ \E w \in Workers : FailReturn(w)
  \/ \E w \in Workers : JoinReturn(w)
  \/ \E w \in Workers : HeartbeatSend(w)
  \/ \E w \in Workers : HeartbeatReturn(w)
  \/ \E w \in Workers : HeartbeatCancelled(w)
  \/ \E w \in Workers : CancelJob(w)
  \/ \E w \in Workers : CancelIdle(w)
  \/ Tick

\* batch_process_files without the try block around one file: the exception
\* of a file ends the loop
BatchFile_Aborts ==
  /\ batch_i < Len(batch_input)
  /\ batch_i' = IF process_geotiff_advanced(batch_input[batch_i + 1]).raised
                THEN Len(batch_input)
                ELSE batch_i + 1
  /\ batch_result' = batch_process_file(batch_result, batch_input[batch_i + 1])
  /\ UNCHANGED <<workerVars, batch_input, loop_i, loop_results, uploadVars, configVars,
                 resizeVars>>
  /\ UNCHANGED stageVars

\* ------------------------------------------------------ per-file pipeline
\* processor.py:380-408: batch_process_files handles its next file
BatchFile ==
  /\ batch_i < Len(batch_input)
  /\ batch_i' = batch_i + 1
  /\ batch_result' = batch_process_file(batch_result, batch_input[batch_i + 1])
  /\ UNCHANGED <<workerVars, batch_input, loop_i, loop_results, uploadVars, configVars,
                 resizeVars>>
  /\ UNCHANGED stageVars

\* worker.py:322-360: the file loop of process_geotiff_job handles its next
\* file
LoopFile ==
  /\ loop_i < Len(batch_input)
  /\ loop_i' = loop_i + 1
  /\ loop_results' =
       Append(loop_results,
              process_results_entry(loop_i + 1, batch_input[loop_i + 1]))
  /\ UNCHANGED <<workerVars, batch_input, batch_i, batch_result, uploadVars, configVars,
                 resizeVars>>
  /\ UNCHANGED stageVars

NextPipeline == BatchFile \/ LoopFile

\* ------------------------------------------------------------------ upload
\* variant of UploadFile: an artifact that cannot be uploaded ends the call
UploadFile_Aborts ==
  /\ upload_i < Len(upload_files)
  /\ upload_i' = IF upload_files[upload_i + 1] = "ok"
                 THEN upload_i + 1
                 ELSE Len(upload_files)
  /\ uploaded_keys' = upload_job_output_file(uploaded_keys,
                                             ArtifactPath(upload_i + 1),
                                             upload_files[upload_i + 1])
  /\ UNCHANGED <<workerVars, pipeVars, upload_files, worker_upload, configVars,
                 resizeVars>>
  /\ UNCHANGED stageVars

\* file_manager.py:211-246: upload_job_output_files handles its next
\* artifact
UploadFile ==
  /\ upload_i < Len(upload_files)
  /\ upload_i' = upload_i + 1
  /\ uploaded_keys' = upload_job_output_file(uploaded_keys,
                                             ArtifactPath(upload_i + 1),
                                             upload_files[upload_i + 1])
  /\ UNCHANGED <<workerVars, pipeVars, upload_files, worker_upload, configVars,
                 resizeVars>>
  /\ UNCHANGED stageVars

\* worker.py:261-298: upload_output_files of the worker, which has no
\* suspension point, runs over the same artifacts
WorkerUpload ==
  /\ ~worker_upload.returned
  /\ worker_upload' =
       [returned |-> TRUE,
        keys |-> upload_output_files(
                   [i \in DOMAIN upload_files |-> ArtifactPath(i)],
                   ReadableArtifacts(upload_files))]
  /\ UNCHANGED <<workerVars, pipeVars, upload_files, upload_i, uploaded_keys,
                 configVars, resizeVars>>
  /\ UNCHANGED stageVars

NextUpload == UploadFile \/ WorkerUpload

Spec == Init /\ [][Next]_vars

SpecPipeline == InitPipeline /\ [][NextPipeline]_vars

SpecFleet == InitFleet /\ [][Next]_vars

SpecQueue == InitQueue /\ [][Next]_vars

\* the step the main task of w takes when the call it awaits returns, or
\* when the file loop is through (worker.py:416-476 and 303-389)
MainTaskStep(w) ==
  \/ Progress10Return(w)
  \/ DownloadReturn(w)
  \/ Progress30Return(w)
  \/ ProcessFiles(w)
  \/ Progress70Return(w)
  \/ Progress90Return(w)
  \/ CompleteReturn(w)
  \/ FailReturn(w)
  \/ JoinReturn(w)

\* Every network call and every pipeline stage returns, and the event loop
\* runs a task that is ready: the main task goes on when its await returns,
\* and a cancelled heartbeat task gets to take its cancellation.
Fairness ==
  \A w \in Workers :
    /\ WF_vars(MainTaskStep(w))
    /\ WF_vars(HeartbeatCancelled(w))

SpecLive == InitJob /\ [][Next]_vars /\ Fairness

SpecUpload == InitUploads /\ [][NextUpload]_vars

\* ----------------------------------------------------------- configuration
\* config.py:185-198: the configuration module run as a script validates
\* the settings and prints the answer
ValidateConfig ==
  /\ validation = NotValidated
  /\ validation' = validate_config(config)
  /\ UNCHANGED <<workerVars, pipeVars, uploadVars, config, heartbeat_interval,
                 resizeVars>>
  /\ UNCHANGED stageVars

\* worker.py:58-89 and 525-527: main constructs the worker, which reads the
\* interval from the environment; validate_config is not called on the way
WorkerConstruct ==
  /\ heartbeat_interval = 0
  /\ heartbeat_interval' = config.HEARTBEAT_INTERVAL
  /\ UNCHANGED <<workerVars, pipeVars, uploadVars, config, validation,
                 resizeVars>>
  /\ UNCHANGED stageVars

NextConfig == ValidateConfig \/ WorkerConstruct

SpecConfig == InitConfigs /\ [][NextConfig]_vars

\* ---------------------------------------------------------------- resizing
\* worker.py:333-337 and main.py:95: the worker converts the raster with the
\* maxSize of the job
ConvertToPng ==
  /\ image = NoImage
  /\ image' = convert_to_png(raster, maxSize)
  /\ UNCHANGED <<workerVars, pipeVars, uploadVars, configVars, raster, maxSize,
                 stage_image>>
  /\ UNCHANGED stageVars

\* processor.py:301-305: the conversion stage of process_geotiff_advanced
ConvertStage ==
  /\ stage_image = NoImage
  /\ stage_image' = convert_stage(raster, maxSize)
  /\ UNCHANGED <<workerVars, pipeVars, uploadVars, configVars, raster, maxSize,
                 image>>
  /\ UNCHANGED stageVars

NextResize == ConvertToPng \/ ConvertStage

SpecResize == InitResizes /\ [][NextResize]_vars

\* ----------------------------------------------------------------- staging
\* file_manager.py:62-82: the listing is requested; a failure raises, an
\* empty listing returns an empty list, otherwise the temp directory of the
\* job is created
StageListing ==
  /\ staging = "start"
  /\ staging' = IF files_info.status # 200 THEN "raised"
                ELSE IF files_info.files = <<>> THEN "returned"
                ELSE "loop"
  /\ temp_dir' = (files_info.status = 200 /\ files_info.files # <<>>)
  /\ UNCHANGED <<files_info, file_i, downloaded_files, temp_dir_files>>
  /\ UNCHANGED <<workerVars, pipeVars, uploadVars, configVars, resizeVars>>

\* file_manager.py:85-119: the next entry of the listing is handled; after
\* the last one the list of descriptors is returned
StageFile ==
  /\ staging = "loop"
  /\ LET r == download_job_input_file(downloaded_files, temp_dir_files,
                                      file_i + 1, files_info.files[file_i + 1])
     IN /\ downloaded_files' = r.downloaded_files
        /\ temp_dir_files' = r.on_disk
  /\ file_i' = file_i + 1
  /\ staging' = IF file_i + 1 = Len(files_info.files) THEN "returned" ELSE "loop"
  /\ UNCHANGED <<files_info, temp_dir>>
  /\ UNCHANGED <<workerVars, pipeVars, uploadVars, configVars, resizeVars>>

\* file_manager.py:323-344: cleanup_temp_files is called on the list that
\* download_job_input_files returned
StageCleanup ==
  /\ staging = "returned"
  /\ LET r == fm_cleanup_temp_files(downloaded_files, temp_dir_files, temp_dir)
     IN /\ temp_dir_files' = r.on_disk
        /\ temp_dir' = r.dir_exists
  /\ staging' = "cleaned"
  /\ UNCHANGED <<files_info, file_i, downloaded_files>>
  /\ UNCHANGED <<workerVars, pipeVars, uploadVars, configVars, resizeVars>>

NextStage == StageListing \/ StageFile \/ StageCleanup

SpecStage == InitStages /\ [][NextStage]_vars

TypeOK ==
  /\ jobStatus \in [Jobs -> {"queued", "claimed", "completed", "failed"}]
  /\ owner \in [Jobs -> Workers \cup {NoWorker}]
  /\ lease \in [Jobs -> 0..LeaseTimeout]
  /\ pc \in [Workers -> ProcessJobPcs \cup {"claim", "sleep", "backoff", "stopped"}]
  /\ current_job_id \in [Workers -> Jobs \cup {NoJob}]
  /\ hbState \in [Workers -> {"none", "sleeping", "sending", "cancelled", "done"}]
  /\ nComplete \in [Workers -> 0..2]
  /\ nFail \in [Workers -> 0..2]
  /\ hbInFlight \in [Workers -> 0..2]
  /\ hbTasks \in [Workers -> 0..2]
  /\ hbFailures \in [Workers -> 0..MaxHbFailures]
  /\ pollTimer \in [Workers -> 0..(PollInterval * 2)]
  /\ slept \in [Workers -> 0..(PollInterval * 2)]
  /\ progressFailed \in [Workers -> BOOLEAN]
  /\ shutdown \in [Workers -> BOOLEAN]
  /\ lastClaim \in [Workers -> [answer : ClaimAnswers \cup {"none"},
                                 result : Jobs \cup {NoJob}]]
  /\ batch_input \in BatchInputs
  /\ batch_i \in 0..Len(batch_input)
  /\ loop_i \in 0..Len(batch_input)
  /\ Len(batch_result.files) = batch_i
  /\ Len(loop_results) = loop_i


\* ================================================================ claims
\* process_job sent its terminal request and ran to its return
Resolved(w) == exit[w] \in {"true", "false"}
Returned(w) == Resolved(w) /\ pc[w] = "claim"
\* between the claim of a job and the sending of its terminal request
Working(w) == InProcessJob(w) /\ exit[w] = "none" /\ nComplete[w] + nFail[w] = 0
\* the step in which the heartbeat task of w sends a request
HeartbeatRequestStep(w) == hbState[w] = "sleeping" /\ hbState'[w] = "sending"

\* C1: every process_job that runs to its return has sent exactly one
\* terminal request: one complete or one fail, never both, never neither,
\* never two of a kind.
C1_ExactlyOneTerminal ==
  \A w \in Workers : Returned(w) => nComplete[w] + nFail[w] = 1

\* a process_job returned False after a complete request that was not
\* acknowledged
C1_Witness ==
  \E w \in Workers : Returned(w) /\ exit[w] = "false" /\ nComplete[w] = 1

\* C2 (as claimed): no two workers are between claim and terminal request
\* for the same job at the same time.
C2_Original ==
  \A w1, w2 \in Workers :
    (w1 # w2 /\ Working(w1) /\ Working(w2))
      => current_job_id[w1] # current_job_id[w2]

\* C3 (as claimed): from the claim until the terminal request, the time
\* since the claim or the last heartbeat request never exceeds the heartbeat
\* interval.
C3_Original ==
  \A w \in Workers : Working(w) => sinceRenew[w] <= HeartbeatInterval

\* C4 (as claimed): no heartbeat request of a job is started once its
\* terminal request has been started.
C4_Original ==
  [][\A w \in Workers :
       HeartbeatRequestStep(w) => nComplete[w] + nFail[w] = 0]_vars

\* what the fields of the error record of worker.py:458-463 stand for
FieldMeaning(k) ==
  CASE k = "error" -> "message"
    [] k = "traceback" -> "trace"
    [] k = "workerId" -> "worker identifier"
    [] k = "failedAt" -> "timestamp"
    [] OTHER -> k

\* C5 (as claimed): a job whose processing raised is reported by one fail
\* request and no complete, and the error record carries a kind, a message,
\* a trace, the worker identifier and a timestamp.
C5_Original ==
  \A w \in Workers :
    nFail[w] > 0 =>
      /\ nFail[w] = 1
      /\ nComplete[w] = 0
      /\ terminalReq[w].type = "fail"
      /\ {"kind", "message", "trace", "worker identifier", "timestamp"}
           \subseteq {FieldMeaning(k) : k \in DOMAIN terminalReq[w].error}

\* the job has inputs, all of them staged, none of them usable
NoValidInput(l) ==
  /\ l.status = 200
  /\ l.files # <<>>
  /\ \A i \in DOMAIN l.files : l.files[i] \in {"corrupt", "not_tiff"}

\* C6 (as claimed): a job none of whose input files is valid ends with
\* exactly one fail request and no complete request.
C6_Original ==
  \A w \in Workers :
    (Resolved(w) /\ NoValidInput(listed[w])) =>
      /\ nFail[w] = 1
      /\ nComplete[w] = 0
      /\ terminalReq[w].type = "fail"

\* the job has inputs and all of them are rasters that convert without error
AllValidInput(l) ==
  /\ l.status = 200
  /\ l.files # <<>>
  /\ \A i \in DOMAIN l.files : l.files[i] = "valid"

\* C7: a job whose inputs are all valid rasters ends with exactly one
\* complete request and no fail request, and the key list of the request
\* holds, for every input file, the keys of its image, its georeference
\* side-file and its metadata record, and nothing else.
C7_ThreeKeysPerInput ==
  \A w \in Workers :
    (Resolved(w) /\ AllValidInput(listed[w])) =>
      /\ nComplete[w] = 1
      /\ nFail[w] = 0
      /\ terminalReq[w].type = "complete"
      /\ Len(terminalReq[w].outputKeys) = 3 * Len(listed[w].files)
      /\ Range(terminalReq[w].outputKeys) =
           {File("out", i, n) : i \in DOMAIN listed[w].files,
                                n \in Range(OutputNames)}

\* a job of two valid rasters was completed
C7_Witness ==
  \E w \in Workers :
    /\ Returned(w)
    /\ AllValidInput(listed[w])
    /\ Len(listed[w].files) = 2
    /\ Len(terminalReq[w].outputKeys) = 6

\* C8 (as claimed): no job is still being worked on, without a terminal
\* request sent, later than max_processing_time after its claim.
C8_Original ==
  \A w \in Workers : Working(w) => elapsed[w] <= MaxProcessingTime

\* C9 (as claimed): when process_job has returned, nothing that was created
\* on disk for the job is left.
C9_Original ==
  \A w \in Workers : Returned(w) => workspace[w] = {}

\* C10: a heartbeat request is only ever sent while process_job is running
\* and has not entered its finally block; once process_job has returned or
\* unwound, the worker has no heartbeat task.
C10_NoHeartbeatAfterExit ==
  [][\A w \in Workers :
       /\ HeartbeatRequestStep(w) => (InProcessJob(w) /\ exit[w] = "none")
       /\ (exit[w] # "none" /\ ~InProcessJob(w)) => hbState[w] = "none"]_vars

\* a process_job was cancelled with its complete request in flight and has
\* unwound
C10_Witness ==
  \E w \in Workers :
    /\ pc[w] = "stopped"
    /\ exit[w] = "cancelled"
    /\ nComplete[w] = 1
    /\ hbState[w] = "none"

\* C11: the heartbeat requests of a worker for its job are strictly
\* sequential: at no time are two of them in flight together, a request is
\* in flight only while the heartbeat task lives, and a worker has at most
\* one heartbeat task, which exists only while a job is in flight.
C11_HeartbeatsSequential ==
  \A w \in Workers :
    /\ hbInFlight[w] <= 1
    /\ hbTasks[w] <= 1
    /\ hbInFlight[w] = 1 => hbTasks[w] = 1
    /\ hbTasks[w] = 1 => (InProcessJob(w) /\ current_job_id[w] # NoJob)

\* a heartbeat request is in flight after the ones before it returned with
\* a failure
C11_Witness ==
  \E w \in Workers :
    /\ hbInFlight[w] = 1
    /\ hbTasks[w] = 1
    /\ hbFailures[w] = MaxHbFailures

\* C12: a worker sends a claim only when it has no job in flight: from the
\* poll sleep after at least the poll interval, or right after process_job
\* returned, without a sleep in between; a claim answered without a job is
\* followed by the poll sleep.
C12_ClaimOnlyWhenIdle ==
  [][\A w \in Workers :
       /\ (pc'[w] = "claim" /\ pc[w] # "claim") =>
            \/ pc[w] = "sleep" /\ slept[w] >= PollInterval
            \/ pc[w] = "backoff"
            \/ pc[w] = "join" /\ hbState[w] = "done" /\ Resolved(w)
       /\ pc'[w] = "claim" =>
            /\ current_job_id'[w] = NoJob
            /\ hbTasks'[w] = 0
            /\ input_files'[w] = <<>>
       /\ (pc[w] = "claim" /\ pc'[w] \notin {"claim", "stopped"}
             /\ current_job_id'[w] = NoJob) =>
            (pc'[w] = "sleep" /\ slept'[w] = 0)
       /\ (pc[w] = "join" /\ pc'[w] \notin {"join", "stopped"}) =>
            pc'[w] = "claim"]_vars

\* a job was completed and the next claim is in flight
C12_Witness ==
  \E w \in Workers : Returned(w) /\ exit[w] = "true" /\ nComplete[w] = 1

\* C13: nothing but a shutdown ends the loop of run: after a process_job
\* that returned False the loop claims again, and an exception caught by
\* the handler of the loop is followed by a sleep of twice the poll interval
\* and another claim.
C13_LoopSurvivesFailures ==
  [][\A w \in Workers :
       /\ (pc'[w] = "stopped" /\ pc[w] # "stopped") => shutdown'[w]
       /\ (pc[w] = "join" /\ pc'[w] # "join" /\ exit[w] = "false") =>
            pc'[w] = "claim"
       /\ (pc'[w] = "backoff" /\ pc[w] # "backoff") => slept'[w] = 0
       /\ (pc[w] = "backoff" /\ pc'[w] # "backoff") =>
            \/ pc'[w] = "stopped"
            \/ pc'[w] = "claim" /\ slept[w] >= PollInterval * 2]_vars

\* the fail request of a job was not acknowledged, the job is still claimed
\* at the backend, and the worker has sent its next claim
C13_Witness ==
  \E w \in Workers :
    /\ pc[w] = "claim"
    /\ exit[w] = "false"
    /\ terminalReq[w].type = "fail"
    /\ jobStatus[terminalReq[w].job] = "claimed"

C15_Original ==
  \A w \in Workers :
    lastClaim[w].answer \in ClaimErrors =>
      lastClaim[w].result # claim_next_job("no_job", NoJob)

\* the number of entries of a listing that are of one of the kinds
CountKinds(l, kinds) == Cardinality({i \in DOMAIN l.files : l.files[i] \in kinds})

\* the staging of the listing raises: the listing request failed, a transfer
\* raised, or nothing could be downloaded
StagingFails(l) ==
  \/ l.status # 200
  \/ CountKinds(l, {"stream_error"}) > 0
  \/ CountKinds(l, {"not_tiff", "corrupt", "valid"}) = 0

\* the terminal request of the latest process_job of w is the one its task
\* type and its listing call for, with the payload and the keys they call for
TerminalAsListed(w) ==
  IF listed[w] = NoListing \/ StagingFails(listed[w])
  THEN /\ nFail[w] = 1
       /\ nComplete[w] = 0
       /\ terminalReq[w].type = "fail"
  ELSE /\ nComplete[w] = 1
       /\ nFail[w] = 0
       /\ terminalReq[w].type = "complete"
       /\ Len(terminalReq[w].outputKeys) = 3 * CountKinds(listed[w], {"valid"})
       /\ terminalReq[w].outputPayload.summary =
            [totalInputFiles |->
               CountKinds(listed[w], {"not_tiff", "corrupt", "valid"}),
             successfullyProcessed |-> CountKinds(listed[w], {"valid"}),
             failed |-> CountKinds(listed[w], {"corrupt"}),
             outputFilesCount |-> 3 * CountKinds(listed[w], {"valid"})]

\* C16: a heartbeat request that failed, after any number of failed ones,
\* leaves the main task where it is and puts the heartbeat task back to a
\* sleep of the heartbeat interval (unless process_job reaches its finally
\* block in that step), and the job ends with the terminal request its
\* inputs call for.
C16_HeartbeatFailureTolerated ==
  [][\A w \in Workers :
       /\ (hbState[w] = "sending" /\ hbFailures[w] > 0
             /\ hbState'[w] # "sending") =>
            \/ /\ hbState'[w] = "sleeping"
               /\ hbTimer'[w] = HeartbeatInterval
               /\ pc'[w] = pc[w]
               /\ nFail'[w] = nFail[w]
               /\ exit'[w] = exit[w]
            \/ hbState'[w] = "cancelled" /\ pc'[w] = "join"
       /\ (Resolved(w) /\ hbFailures[w] > 0)' => TerminalAsListed(w)']_vars

\* a job was completed although its latest heartbeat requests all failed
C16_Witness ==
  \E w \in Workers :
    /\ Returned(w)
    /\ hbFailures[w] = MaxHbFailures
    /\ exit[w] = "true"

\* C17: a progress request that failed is not sent again, and the job ends
\* with the terminal request, the payload and the keys its inputs call for.
C17_ProgressFailureSwallowed ==
  \A w \in Workers :
    /\ \A i, k \in DOMAIN progressLog[w] :
         i < k => progressLog[w][i] < progressLog[w][k]
    /\ (Resolved(w) /\ progressFailed[w]) => TerminalAsListed(w)

\* a job with outputs was completed although a progress request failed
C17_Witness ==
  \E w \in Workers :
    /\ Returned(w)
    /\ progressFailed[w]
    /\ exit[w] = "true"
    /\ Len(terminalReq[w].outputKeys) > 0

\* C18 (as claimed): a job whose listing has N entries, M < N of them not a
\* valid raster, ends with a complete request that reports N - M files
\* processed and M failures.
C18_Original ==
  \A w \in Workers :
    LET l == listed[w]
        N == Len(l.files)
        M == N - CountKinds(l, {"valid"})
    IN (Resolved(w) /\ l.status = 200 /\ M < N) =>
         /\ terminalReq[w].type = "complete"
         /\ terminalReq[w].outputPayload.summary.successfullyProcessed = N - M
         /\ terminalReq[w].outputPayload.summary.failed = M

\* the file loop of the worker only
LoopKeepsMetadata ==
  \A i \in 1..loop_i :
    (batch_input[i].valid /\ "metadata" \in batch_input[i].ok
       /\ "png" \notin batch_input[i].ok) =>
      /\ loop_results[i].error
      /\ "metadata" \in loop_results[i].output_files

\* batch_process_files only
BatchKeepsMetadata ==
  \A i \in 1..batch_i :
    (batch_input[i].valid /\ "metadata" \in batch_input[i].ok
       /\ "png" \notin batch_input[i].ok) =>
      /\ batch_result.files[i].summary.has_errors
      /\ "metadata" \in batch_result.files[i].output_files

\* C19 (as claimed): a file whose conversion failed and whose metadata
\* extraction succeeded is marked as not successful and has its metadata
\* record among its outputs, in the file loop of the worker as well as in
\* batch_process_files.
C19_Original == LoopKeepsMetadata /\ BatchKeepsMetadata

\* C20 (as claimed): the files that batch_process_files counts as successful
\* are exactly the files whose conversion to PNG succeeded.
C20_Original ==
  batch_result.summary.successful =
    Cardinality({i \in 1..batch_i :
                   batch_input[i].valid /\ "png" \in batch_input[i].ok})

\* the error message that process_geotiff_advanced records for a stage
StageError(s) ==
  CASE s = "metadata" -> "Metadata extraction failed"
    [] s = "png" -> "PNG conversion failed"
    [] s = "world" -> "World file creation failed"
    [] s = "thumb" -> "Thumbnail creation failed"

\* the artifact a stage of process_geotiff_advanced leaves
StageArtifact(s) ==
  CASE s = "metadata" -> "metadata"
    [] s = "png" -> "png"
    [] s = "world" -> "world_file"
    [] s = "thumb" -> "thumbnail"

\* C21 (as claimed): in the per-file pipeline each of metadata, conversion,
\* georeference and thumbnail is attempted whatever the stages before it
\* did: a stage that succeeds leaves its artifact, and a stage that fails
\* is recorded among the errors of the file's result.
C21_Original ==
  \A i \in 1..batch_i :
    batch_input[i].valid =>
      \A s \in {"metadata", "png", "world", "thumb"} :
        IF s \in batch_input[i].ok
        THEN StageArtifact(s) \in batch_result.files[i].output_files
        ELSE StageError(s) \in Range(batch_result.files[i].errors)

\* C22: an exception raised while one file is processed never ends the
\* batch: each file handed to the loop so far has an entry of its own, in
\* batch_process_files and in the file loop of the worker alike; the entry
\* of a file that raised says so, the entries of the files after it carry
\* their own outcome, and every file is counted once.
C22_BatchNeverAborts ==
  /\ Len(batch_result.files) = batch_i
  /\ Len(loop_results) = loop_i
  /\ batch_result.summary.successful + batch_result.summary.failed = batch_i
  /\ \A i \in 1..batch_i :
       /\ batch_result.files[i].raised = ~batch_input[i].valid
       /\ ("png" \in batch_result.files[i].output_files)
            = (batch_input[i].valid /\ "png" \in batch_input[i].ok)
  /\ Len(batch_result.errors)
       = Cardinality({i \in 1..batch_i : ~batch_input[i].valid})
  /\ \A i \in 1..loop_i :
       /\ loop_results[i].input_file = i
       /\ loop_results[i].error
            = (batch_input[i].valid =>
                 {"metadata", "png", "world"} \ batch_input[i].ok # {})

\* both loops done with a batch whose first file raised and whose second
\* file was converted
C22_Witness ==
  /\ Len(batch_input) = 2 /\ batch_i = 2 /\ loop_i = 2
  /\ ~batch_input[1].valid
  /\ batch_result.files[1].raised
  /\ "png" \in batch_result.files[2].output_files
  /\ loop_results[1].error
  /\ loop_results[2].output_files = {"png", "world_file", "metadata"}

\* C23 (as claimed): no partial file is ever retained: once
\* download_input_files has returned or raised, the local target of a
\* transfer that failed midway does not exist.
C23_Original ==
  \A w \in Workers :
    (listed[w].status = 200 /\ pc[w] # "download") =>
      \A i \in DOMAIN listed[w].files :
        (/\ listed[w].files[i] = "stream_error"
         /\ \A k \in 1..(i - 1) : listed[w].files[k] # "stream_error")
          => File("in", i, "input") \notin workspace[w]

\* the artifacts among the first n handed over that meet no failure
Uploadable(n) == {i \in 1..n : upload_files[i] = "ok"}

\* C24: an artifact whose upload fails, whether the file is missing, no
\* upload URL is obtained, the transfer fails or an exception is raised, is
\* left out of the returned keys and the artifacts after it are still
\* handled: at every point of upload_job_output_files the keys are exactly
\* those of the artifacts handled so far that met no failure, in their
\* order; upload_output_files of the worker always returns, with exactly the
\* keys of the artifacts it could read.
C24_FailedUploadLeftOut ==
  /\ Len(uploaded_keys) = Cardinality(Uploadable(upload_i))
  /\ Range(uploaded_keys) = {ArtifactPath(i) : i \in Uploadable(upload_i)}
  /\ \A a, b \in DOMAIN uploaded_keys :
       a < b => \E i, k \in Uploadable(upload_i) :
                  /\ i < k
                  /\ uploaded_keys[a] = ArtifactPath(i)
                  /\ uploaded_keys[b] = ArtifactPath(k)
  /\ worker_upload.returned =>
       /\ Range(worker_upload.keys) = ReadableArtifacts(upload_files)
       /\ Len(worker_upload.keys) = Cardinality(ReadableArtifacts(upload_files))

\* both calls are through with three artifacts of which the second is
\* missing: the keys are those of the first and the third
C24_Witness ==
  /\ Len(upload_files) = 3 /\ upload_i = 3
  /\ upload_files[1] = "ok" /\ upload_files[2] = "missing"
  /\ upload_files[3] = "ok"
  /\ uploaded_keys = <<ArtifactPath(1), ArtifactPath(3)>>
  /\ worker_upload.returned
  /\ worker_upload.keys = <<ArtifactPath(1), ArtifactPath(3)>>

\* C25 (as claimed): validation reports the configuration as invalid
\* whenever the heartbeat interval is not below the lease timeout of the
\* backend, and no worker is constructed with such an interval.
C25_Original ==
  /\ (validation # NotValidated /\ config.HEARTBEAT_INTERVAL >= LeaseTimeout)
       => ~validation.valid
  /\ heartbeat_interval < LeaseTimeout

\* C26 (as claimed): the workspace of a job is cleaned up only after the
\* terminal request of the job has been sent: no step of process_job
\* removes a path of the job while neither complete nor fail has been sent.
C26_Original ==
  [][\A w \in Workers :
       (InProcessJob(w) /\ workspace[w] \ workspace'[w] # {})
         => nComplete[w] + nFail[w] >= 1]_vars

\* C27: the cancellation of the heartbeat task never surfaces as an error:
\* while process_job waits in its finally block for the cancelled task, and
\* unless the worker process itself is shut down at that moment, no step
\* sends a complete or a fail request or changes the value process_job is
\* about to return, and process_job then returns to the loop of run, which
\* claims again.
C27_HeartbeatCancelSilent ==
  [][\A w \in Workers :
       (pc[w] = "join" /\ Resolved(w) /\ shutdown'[w] = shutdown[w]) =>
          /\ exit'[w] = exit[w]
          /\ nFail'[w] = nFail[w]
          /\ nComplete'[w] = nComplete[w]
          /\ terminalReq'[w] = terminalReq[w]
          /\ pc'[w] \in {"join", "claim"}]_vars

\* the heartbeat task has taken its cancellation and ended while
\* process_job is about to return True
C27_Witness ==
  \E w \in Workers :
    /\ pc[w] = "join"
    /\ hbState[w] = "done"
    /\ exit[w] = "true"
    /\ nFail[w] = 0

\* the terminal request of the worker was not acknowledged, or process_job
\* is about to return False
Unacknowledged(w) ==
  \/ pc[w] \in {"complete", "fail"} /\ response[w] = "error"
  \/ pc[w] = "join" /\ exit[w] = "false"

\* C30: a terminal request that is not acknowledged is never sent again and
\* never replaced by the other one: from the moment complete or fail came
\* back with an error until process_job has returned, and unless the worker
\* process is shut down, the worker sends no further complete or fail, the
\* job undergoes no transition, and process_job returns False to the loop.
C30_TerminalSentOnce ==
  [][\A w \in Workers :
       (Unacknowledged(w) /\ shutdown'[w] = shutdown[w]) =>
          /\ nComplete'[w] = nComplete[w]
          /\ nFail'[w] = nFail[w]
          /\ nComplete[w] + nFail[w] = 1
          /\ terminalReq'[w] = terminalReq[w]
          /\ jobStatus'[terminalReq[w].job] = jobStatus[terminalReq[w].job]
          /\ pc'[w] # pc[w] =>
               \/ pc[w] \in {"complete", "fail"} /\ pc'[w] = "join"
                    /\ exit'[w] = "false"
               \/ pc[w] = "join" /\ pc'[w] = "claim" /\ exit'[w] = "false"]_vars

\* process_job is about to return False after a complete request that was
\* not acknowledged; no fail request was sent and the job is still claimed
C30_Witness ==
  \E w \in Workers :
    /\ pc[w] = "join"
    /\ exit[w] = "false"
    /\ nComplete[w] = 1
    /\ nFail[w] = 0
    /\ jobStatus[terminalReq[w].job] = "claimed"

\* C28: under fair scheduling, with every network call and every stage
\* returning, and unless the worker process is shut down, each job a worker
\* has claimed gets its complete or its fail request sent, exactly one of
\* them, and process_job returns to the loop, which claims again; a run
\* that got as far as its last progress request without an error ends with
\* complete and without fail.
C28_JobResolves ==
  \A w \in Workers :
    /\ Working(w) ~> ((Returned(w) /\ nComplete[w] + nFail[w] = 1) \/ shutdown[w])
    /\ (pc[w] = "progress90")
         ~> ((Returned(w) /\ nComplete[w] = 1 /\ nFail[w] = 0) \/ shutdown[w])

\* the worker is back at claim, not shut down, after a run that sent the
\* four progress values and then complete, which the backend accepted
C28_Witness ==
  \E w \in Workers :
    /\ Returned(w)
    /\ ~shutdown[w]
    /\ progressLog[w] = <<10, 30, 70, 90>>
    /\ nComplete[w] = 1
    /\ jobStatus[terminalReq[w].job] = "completed"

\* what C29 has the converted image measure, for a raster of the given size
\* and a maximum of max, 0 for none
Scaled(size, max) ==
  LET larger == Max(size.width, size.height) IN
  IF max # 0 /\ larger > max
  THEN [width |-> (size.width * max) \div larger,
        height |-> (size.height * max) \div larger]
  ELSE size

\* C29 (as claimed): when a maximum is configured and the larger dimension
\* of the raster exceeds it, both dimensions of the converted image are at
\* most the maximum and each is the dimension of the raster times
\* max / larger dimension, rounded down; otherwise the image has the
\* dimensions of the raster.
C29_Original ==
  /\ image # NoImage =>
       /\ image = Scaled(raster, maxSize)
       /\ (maxSize # 0 /\ Max(raster.width, raster.height) > maxSize)
            => Max(image.width, image.height) <= maxSize
  /\ stage_image # NoImage =>
       stage_image = Scaled(raster, IF maxSize # 0 THEN maxSize ELSE max_image_size)

\* the step in which process_job of w, suspended at an await, is cancelled
CancelledStep(w) == exit[w] # "cancelled" /\ exit'[w] = "cancelled"

\* C31: when process_job is cancelled at one of its suspension points, the
\* cancellation itself sends neither complete nor fail and changes nothing
\* at the backend; the finally block cancels the heartbeat task and awaits
\* it; process_job does not unwind before that task has ended, and when it
\* has unwound current_job_id is None; under fair scheduling it does unwind.
C31_CancelRunsFinally ==
  /\ [][\A w \in Workers :
          /\ CancelledStep(w) =>
               /\ pc[w] \in AwaitPcs
               /\ hbState'[w] = "cancelled"
               /\ pc'[w] = "join"
               /\ current_job_id'[w] = current_job_id[w]
               /\ nComplete'[w] = nComplete[w]
               /\ nFail'[w] = nFail[w]
               /\ terminalReq'[w] = terminalReq[w]
               /\ jobStatus' = jobStatus
          /\ (exit[w] = "cancelled" /\ pc[w] = "join" /\ pc'[w] # "join") =>
               /\ hbState[w] = "done"
               /\ hbTasks[w] = 0
               /\ current_job_id'[w] = NoJob
               /\ nComplete'[w] = nComplete[w]
               /\ nFail'[w] = nFail[w]]_vars
  /\ \A w \in Workers :
       (exit[w] = "cancelled")
         ~> (pc[w] = "stopped" /\ current_job_id[w] = NoJob /\ hbTasks[w] = 0)

\* process_job was cancelled while its last progress request was in flight:
\* it has unwound, no terminal request was sent, the job is still claimed
C31_Witness ==
  \E w \in Workers :
    /\ exit[w] = "cancelled"
    /\ pc[w] = "stopped"
    /\ current_job_id[w] = NoJob
    /\ hbTasks[w] = 0
    /\ progressLog[w] = <<10, 30, 70, 90>>
    /\ terminalReq[w] = NoRequest
    /\ \E j \in Jobs : jobStatus[j] = "claimed" /\ owner[j] = w

\* the steps in which the main task of w sends a progress request, or its
\* complete or fail request
ProgressRequestStep(w) ==
  /\ pc'[w] \in {"progress10", "progress30", "progress70", "progress90"}
  /\ pc'[w] # pc[w]
TerminalRequestStep(w) ==
  nComplete'[w] > nComplete[w] \/ nFail'[w] > nFail[w]

\* C32: every progress, heartbeat, complete and fail request of a worker
\* carries the id of the job of its latest claim, whose process_job is not
\* yet over; current_job_id is that id for the whole of process_job and is
\* None whenever the worker is claiming or sleeping between polls.
C32_RequestsCarryCurrentJob ==
  /\ [](\A w \in Workers :
          /\ InProcessJob(w) =>
               (claimed[w] \in Jobs /\ current_job_id[w] = claimed[w])
          /\ pc[w] \in {"claim", "sleep", "backoff"} =>
               current_job_id[w] = NoJob)
  /\ [][\A w \in Workers :
          /\ ProgressRequestStep(w) =>
               (InProcessJob(w)' /\ job_id'[w] = claimed'[w])
          /\ HeartbeatRequestStep(w) =>
               (InProcessJob(w) /\ hb_job_id[w] = claimed[w])
          /\ TerminalRequestStep(w) =>
               (InProcessJob(w)' /\ terminalReq'[w].job = claimed'[w])]_vars

\* the worker has resolved one job and claimed the other, and a heartbeat
\* request carrying the id of the second is in flight
C32_Witness ==
  \E w \in Workers : \E j, k \in Jobs :
    /\ j # k
    /\ owner[j] = w
    /\ jobStatus[j] \in {"completed", "failed"}
    /\ claimed[w] = k
    /\ current_job_id[w] = k
    /\ hbState[w] = "sending"
    /\ hb_job_id[w] = k

\* the step in which a claim of w ends without a job
ClaimFailedStep(w) ==
  pc[w] = "claim" /\ lastClaim'[w].answer \in ClaimErrors

\* C33: claim_next_job never raises: a status other than 200, a malformed
\* body and a transport exception all make it return no job, after which
\* the loop sleeps the poll interval, no less and no more, before its next
\* claim; the sleep of twice the poll interval is never entered from a
\* claim.
C33_ClaimFailureSleepsNormally ==
  [][\A w \in Workers :
       /\ ClaimFailedStep(w) =>
            /\ lastClaim'[w].result = NoJob
            /\ pc'[w] = "sleep"
            /\ pollTimer'[w] = PollInterval
            /\ slept'[w] = 0
       /\ (pc[w] = "claim" /\ pc'[w] # "claim") => pc'[w] # "backoff"
       /\ (pc[w] = "sleep" /\ pc'[w] = "claim"
             /\ lastClaim[w].answer \in ClaimErrors) =>
            (pollTimer[w] = 0 /\ slept[w] = PollInterval)]_vars

\* a claim was answered with a malformed body; the worker is in the sleep
\* of the poll interval, which is over
C33_Witness ==
  \E w \in Workers :
    /\ pc[w] = "sleep"
    /\ lastClaim[w] = [answer |-> "malformed_body", result |-> NoJob]
    /\ slept[w] = PollInterval
    /\ pollTimer[w] = 0

\* the step in which w sends the complete request of its job
CompleteRequestStep(w) == nComplete'[w] > nComplete[w]

\* C34: in the output payload of every complete request, the files counted
\* as successfully processed and as failed add up to the number of per-file
\* result records, which is at most totalInputFiles and equal to it exactly
\* when no downloaded file was skipped for its extension; outputFilesCount
\* is three times successfullyProcessed, and there are at most that many
\* output keys.
C34_SummaryCounts ==
  [][\A w \in Workers :
       CompleteRequestStep(w) =>
         LET summary == terminalReq'[w].outputPayload.summary
             counted == summary.successfullyProcessed + summary.failed
             skipped == {i \in DOMAIN input_files[w] :
                           ~IsGeoTIFF(input_files[w][i])}
         IN /\ terminalReq'[w].type = "complete"
            /\ counted = Len(processing_results[w])
            /\ counted <= summary.totalInputFiles
            /\ summary.totalInputFiles = Len(input_files[w])
            /\ (counted = summary.totalInputFiles) <=> (skipped = {})
            /\ summary.outputFilesCount = 3 * summary.successfullyProcessed
            /\ Len(terminalReq'[w].outputKeys) <= summary.outputFilesCount]_vars

\* a complete request is in flight for a job with two downloaded files, one
\* skipped for its extension and one converted: one of two inputs is
\* counted, three output files, three keys
C34_Witness ==
  \E w \in Workers :
    /\ pc[w] = "complete"
    /\ terminalReq[w].type = "complete"
    /\ listed[w].files = <<"not_tiff", "valid">>
    /\ terminalReq[w].outputPayload.summary =
         [totalInputFiles |-> 2, successfullyProcessed |-> 1, failed |-> 0,
          outputFilesCount |-> 3]
    /\ Len(terminalReq[w].outputKeys) = 3

\* how batch_process_files is to count a raster: it raised, it completed
\* with the error of a stage, or it completed without
Raised(f) == ~f.valid
WithStageErrors(f) == f.valid /\ {"metadata", "png", "world"} \ f.ok # {}
WithoutErrors(f) == f.valid /\ {"metadata", "png", "world"} \subseteq f.ok

\* C35: for every list of input files, the summary batch_process_files
\* returns has successful + failed = total_files = the length of the list:
\* a file that completed without errors is counted once as successful, a
\* file that completed with stage errors or raised once as failed.
C35_EveryFileCountedOnce ==
  /\ batch_result.summary.total_files = Len(batch_input)
  /\ batch_result.summary.successful
       = Cardinality({i \in 1..batch_i : WithoutErrors(batch_input[i])})
  /\ batch_result.summary.failed
       = Cardinality({i \in 1..batch_i :
                        Raised(batch_input[i]) \/ WithStageErrors(batch_input[i])})
  /\ batch_i = Len(batch_input) =>
       batch_result.summary.successful + batch_result.summary.failed
         = batch_result.summary.total_files

\* batch_process_files is through with a batch whose first file raised and
\* whose second file completed with the error of a stage: none successful,
\* two failed, of two
C35_Witness ==
  /\ Len(batch_input) = 2 /\ batch_i = 2
  /\ Raised(batch_input[1])
  /\ WithStageErrors(batch_input[2])
  /\ batch_result.summary.total_files = 2
  /\ batch_result.summary.successful = 0
  /\ batch_result.summary.failed = 2

ProgressSequence == <<10, 30, 70, 90>>
IsPrefix(s, t) == Len(s) <= Len(t) /\ \A i \in 1..Len(s) : s[i] = t[i]

\* C36: the progress values sent in one run of process_job are a prefix of
\* 10, 30, 70, 90, each sent at most once and in this order; every one of
\* them is sent before the terminal request of the run; a run that fails
\* during the download has sent 10 only, and a run that sends complete has
\* sent all four.
C36_ProgressPrefix ==
  /\ [](\A w \in Workers : IsPrefix(progressLog[w], ProgressSequence))
  /\ [][\A w \in Workers :
          /\ ProgressRequestStep(w) =>
               /\ nComplete'[w] + nFail'[w] = 0
               /\ progressLog'[w] # <<>>
               /\ pc'[w] = "progress10" => progressLog'[w] = <<10>>
               /\ pc'[w] # "progress10" =>
                    /\ Len(progressLog'[w]) = Len(progressLog[w]) + 1
                    /\ progressLog'[w][Len(progressLog'[w])]
                         > progressLog[w][Len(progressLog[w])]
          /\ TerminalRequestStep(w) =>
               /\ progressLog'[w] = progressLog[w] \/ pc[w] = "claim"
               /\ pc[w] = "download" => progressLog'[w] = <<10>>
               /\ nComplete'[w] > nComplete[w] =>
                    progressLog'[w] = ProgressSequence]_vars

\* the listing of a job named one file whose transfer broke off: the fail
\* request is in flight after the single progress value 10
C36_Witness ==
  \E w \in Workers :
    /\ pc[w] = "fail"
    /\ nFail[w] = 1
    /\ listed[w].files = <<"stream_error">>
    /\ progressLog[w] = <<10>>

\* C37 (as claimed): cleanup_temp_files called on the list that
\* download_job_input_files returned removes every file the download wrote
\* and the temp directory of the job, the files dropped for failing
\* validation included; and every descriptor of the returned list is valid:
\* its file exists, is not empty, is within the size ceiling and has an
\* allowed extension.
C37_Original ==
  /\ staging = "cleaned" => (temp_dir_files = {} /\ ~temp_dir)
  /\ staging = "returned" =>
       \A k \in DOMAIN downloaded_files :
         LET d == downloaded_files[k]
             f == files_info.files[d.local_path]
         IN /\ d.validation.valid
            /\ d.local_path \in temp_dir_files
            /\ d.file_size # 0 /\ d.file_size <= max_file_size
            /\ f.extension \in allowed_extensions

====
